---- MODULE Spec2Model ----
(***************************************************************************)
(* Validation-and-caching engine for LDAP / Active Directory upstreams     *)
(* (package upstreamwatchers): ValidatedSettingsCache, ValidateSecret,     *)
(* ValidateTLSConfig, TestConnection, ValidateGenericLDAP,                 *)
(* validateAndSetLDAPServerConnectivityAndSearchBase, EvaluateConditions.  *)
(*                                                                         *)
(* One validation pass is a sequence of steps (pc); the network round      *)
(* trips (TLS dial, StartTLS dial, search-base query) are steps of their   *)
(* own whose outcome the environment chooses.                              *)
(***************************************************************************)
EXTENDS Integers, Sequences, FiniteSets, TLC

(***************************************************************************)
(* Bounds of the model.                                                    *)
(***************************************************************************)
\* upstream generations are 1..MaxGeneration
MaxGeneration == 2
\* number of Set calls in the cache-only specification SpecCache
MaxSets == 3
\* length of the condition lists given to EvaluateConditions in SpecEval
MaxListLen == 4
MaxObjects == 8

Names == {"idp1", "idp2"}
Generations == 1..MaxGeneration
\* the resource version "" that ValidateSecret returns when the lookup fails
EmptyVersion == ""

(***************************************************************************)
(* Constants of the package.                                               *)
(***************************************************************************)
ReasonNotFound == "SecretNotFound"
ReasonWrongType == "SecretWrongType"
ReasonMissingKeys == "SecretMissingKeys"
ReasonSuccess == "Success"
ReasonInvalidTLSConfig == "InvalidTLSConfig"
ErrNoCertificates == "no certificates found"
LDAPBindAccountSecretType == "kubernetes.io/basic-auth"
typeBindSecretValid == "BindSecretValid"
typeTLSConfigurationValid == "TLSConfigurationValid"
typeLDAPConnectionValid == "LDAPConnectionValid"
TypeSearchBaseFound == "SearchBaseFound"
reasonLDAPConnectionError == "LDAPConnectionError"
noTLSConfigurationMessage == "no TLS configuration provided"
loadedTLSConfigurationMessage == "loaded TLS configuration"
ReasonUsingConfigurationFromSpec == "UsingConfigurationFromSpec"
ReasonErrorFetchingSearchBase == "ErrorFetchingSearchBase"

ConditionTrue == "True"
ConditionFalse == "False"
ConditionUnknown == "Unknown"

\* upstreamldap.LDAPConnectionProtocol; NoProtocol is the zero value of a
\* freshly built ProviderConfig
TLS == "TLS"
StartTLS == "StartTLS"
NoProtocol == ""

\* a nil error
NilErr == "<nil>"

(***************************************************************************)
(* v1alpha1.Condition values.  A message is kept as the format string's    *)
(* text together with the arguments formatted into it.                     *)
(***************************************************************************)
Message(text, host, user, secret, version, err) ==
  [text |-> text, host |-> host, user |-> user, secret |-> secret,
   version |-> version, err |-> err]

PlainMessage(text) == Message(text, "", "", "", EmptyVersion, "")

Condition(type, status, reason, message) ==
  [Type |-> type, Status |-> status, Reason |-> reason, Message |-> message]

\* a nil *v1alpha1.Condition
NilCondition == Condition("<nil>", "", "", PlainMessage(""))

\* bug variant of DeepCopy: a nil receiver gives a new zero Condition
DeepCopyOfNilAllocating(c) ==
  IF c = NilCondition THEN Condition("", "", "", PlainMessage("")) ELSE c

\* bug variant of DeepCopy: the copy is lost and nil comes back
DeepCopyReturningNil(c) == NilCondition

\* (*Condition).DeepCopy: a nil receiver gives nil, otherwise an equal value
DeepCopy(c) == IF c = NilCondition THEN NilCondition ELSE c

(***************************************************************************)
(* upstreamldap.ProviderConfig, the fields the engine reads or writes.     *)
(***************************************************************************)
testHost == "ldap.example.com:123"
NilBundle == "<nil>"

NewConfig(userBase, groupBase) ==
  [Host |-> testHost, ConnectionProtocol |-> NoProtocol, CABundle |-> NilBundle,
   BindUsername |-> "", BindPassword |-> "",
   UserSearchBase |-> userBase, GroupSearchBase |-> groupBase]

(***************************************************************************)
(* ValidatedSettings and ValidatedSettingsCache.  The cache is the Go map  *)
(* ValidatedSettingsByName: a function whose domain is the set of names    *)
(* that have an entry.                                                     *)
(***************************************************************************)
ValidatedSettings(gen, ver, protocol, userBase, groupBase, connCond, sbCond) ==
  [IDPSpecGeneration |-> gen, BindSecretResourceVersion |-> ver,
   LDAPConnectionProtocol |-> protocol,
   UserSearchBase |-> userBase, GroupSearchBase |-> groupBase,
   ConnectionValidCondition |-> connCond, SearchBaseFoundCondition |-> sbCond]

\* the zero value ValidatedSettings{}
ZeroSettings ==
  ValidatedSettings(0, EmptyVersion, NoProtocol, "", "", NilCondition, NilCondition)

NewValidatedSettingsCache == [n \in {} |-> ZeroSettings]

\* bug variant of Get: the spec generation is not compared
GetIgnoringGeneration(s, upstreamName, resourceVersion, idpSpecGeneration) ==
  IF /\ upstreamName \in DOMAIN s
     /\ s[upstreamName].BindSecretResourceVersion = resourceVersion
  THEN [settings |-> s[upstreamName], found |-> TRUE]
  ELSE [settings |-> ZeroSettings, found |-> FALSE]

\* bug variant of Get: the secret's resource version is not compared
GetIgnoringResourceVersion(s, upstreamName, resourceVersion, idpSpecGeneration) ==
  IF /\ upstreamName \in DOMAIN s
     /\ s[upstreamName].IDPSpecGeneration = idpSpecGeneration
  THEN [settings |-> s[upstreamName], found |-> TRUE]
  ELSE [settings |-> ZeroSettings, found |-> FALSE]

Get(s, upstreamName, resourceVersion, idpSpecGeneration) ==
  IF /\ upstreamName \in DOMAIN s
     /\ s[upstreamName].BindSecretResourceVersion = resourceVersion
     /\ s[upstreamName].IDPSpecGeneration = idpSpecGeneration
  THEN [settings |-> s[upstreamName], found |-> TRUE]
  ELSE [settings |-> ZeroSettings, found |-> FALSE]

\* bug variant of Set: an entry already stored under the name is kept
SetKeepingExisting(s, upstreamName, settings) ==
  [n \in DOMAIN s \cup {upstreamName} |->
     IF n \in DOMAIN s THEN s[n] ELSE settings]

\* bug variant of Set: the entries of the other names are dropped
SetDroppingOthers(s, upstreamName, settings) ==
  [n \in {upstreamName} |-> settings]

Set(s, upstreamName, settings) ==
  [n \in DOMAIN s \cup {upstreamName} |->
     IF n = upstreamName THEN settings ELSE s[n]]

(***************************************************************************)
(* ValidateSecret.  A lookup result is the error of the secret lister and, *)
(* when there is none, the secret's type, payload and resource version.    *)
(***************************************************************************)
SecretNotFoundErr == "secret not found"

Secret(err, type, username, password, rv) ==
  [err |-> err, Type |-> type, username |-> username, password |-> password,
   ResourceVersion |-> rv]

\* bug variant: the config gets the credentials only when both are present
ValidateSecretFillingOnlyWhenComplete(secret, secretName, config) ==
  IF secret.err # NilErr
  THEN [condition |-> Condition(typeBindSecretValid, ConditionFalse, ReasonNotFound,
                                PlainMessage(secret.err)),
        resourceVersion |-> EmptyVersion,
        config |-> config]
  ELSE IF secret.Type # LDAPBindAccountSecretType
  THEN [condition |-> Condition(typeBindSecretValid, ConditionFalse, ReasonWrongType,
                                Message("referenced Secret has wrong type",
                                        "", "", secretName, EmptyVersion, secret.Type)),
        resourceVersion |-> secret.ResourceVersion,
        config |-> config]
  ELSE IF secret.username = "" \/ secret.password = ""
  THEN [condition |-> Condition(typeBindSecretValid, ConditionFalse, ReasonMissingKeys,
                                Message("referenced Secret is missing required keys",
                                        "", "", secretName, EmptyVersion, "")),
        resourceVersion |-> secret.ResourceVersion,
        config |-> config]
  ELSE [condition |-> Condition(typeBindSecretValid, ConditionTrue, ReasonSuccess,
                                PlainMessage("loaded bind secret")),
        resourceVersion |-> secret.ResourceVersion,
        config |-> [config EXCEPT !.BindUsername = secret.username,
                                  !.BindPassword = secret.password]]

ValidateSecret(secret, secretName, config) ==
  IF secret.err # NilErr
  THEN [condition |-> Condition(typeBindSecretValid, ConditionFalse, ReasonNotFound,
                                PlainMessage(secret.err)),
        resourceVersion |-> EmptyVersion,
        config |-> config]
  ELSE IF secret.Type # LDAPBindAccountSecretType
  THEN [condition |-> Condition(typeBindSecretValid, ConditionFalse, ReasonWrongType,
                                Message("referenced Secret has wrong type",
                                        "", "", secretName, EmptyVersion, secret.Type)),
        resourceVersion |-> secret.ResourceVersion,
        config |-> config]
  ELSE LET filled == [config EXCEPT !.BindUsername = secret.username,
                                    !.BindPassword = secret.password]
       IN IF filled.BindUsername = "" \/ filled.BindPassword = ""
          THEN [condition |-> Condition(typeBindSecretValid, ConditionFalse, ReasonMissingKeys,
                                        Message("referenced Secret is missing required keys",
                                                "", "", secretName, EmptyVersion, "")),
                resourceVersion |-> secret.ResourceVersion,
                config |-> filled]
          ELSE [condition |-> Condition(typeBindSecretValid, ConditionTrue, ReasonSuccess,
                                        PlainMessage("loaded bind secret")),
                resourceVersion |-> secret.ResourceVersion,
                config |-> filled]

(***************************************************************************)
(* ValidateTLSConfig.  base64.StdEncoding.DecodeString and                 *)
(* CertPool.AppendCertsFromPEM are given by their value on the inputs of   *)
(* the model: one string that is not base64, one that decodes to bytes     *)
(* holding no certificate, one that decodes to a PEM certificate.          *)
(***************************************************************************)
NilTLSSpec == [isNil |-> TRUE, CertificateAuthorityData |-> ""]
TLSSpec(caData) == [isNil |-> FALSE, CertificateAuthorityData |-> caData]

malformedCAData == "this-is-not-base64-encoded"
noCertCAData == "dGhpcyBpcyBub3QgcGVtIGRhdGE="
testCABundleBase64Encoded == "LS0tLS1CRUdJTiBDRVJUSUZJQ0FURS0tLS0t"
testCABundle == "-----BEGIN CERTIFICATE-----"

DecodeString(s) ==
  CASE s = noCertCAData -> [bytes |-> "this is not pem data", err |-> NilErr]
    [] s = testCABundleBase64Encoded -> [bytes |-> testCABundle, err |-> NilErr]
    [] s = "" -> [bytes |-> "", err |-> NilErr]
    [] OTHER -> [bytes |-> "", err |-> "illegal base64 data at input byte 4"]

AppendCertsFromPEM(bundle) == bundle = testCABundle

validTLSCondition(message) ==
  Condition(typeTLSConfigurationValid, ConditionTrue, ReasonSuccess, PlainMessage(message))

invalidTLSCondition(errText) ==
  Condition(typeTLSConfigurationValid, ConditionFalse, ReasonInvalidTLSConfig,
            Message("certificateAuthorityData is invalid", "", "", "", EmptyVersion, errText))

\* bug variant: the certificates are looked for but the bundle is not put
\* into the config
ValidateTLSConfigNotLoading(tlsSpec, config) ==
  IF tlsSpec.isNil
  THEN [condition |-> validTLSCondition(noTLSConfigurationMessage), config |-> config]
  ELSE IF Len(tlsSpec.CertificateAuthorityData) = 0
  THEN [condition |-> validTLSCondition(loadedTLSConfigurationMessage), config |-> config]
  ELSE LET decoded == DecodeString(tlsSpec.CertificateAuthorityData)
       IN IF decoded.err # NilErr
          THEN [condition |-> invalidTLSCondition(decoded.err), config |-> config]
          ELSE IF ~AppendCertsFromPEM(decoded.bytes)
          THEN [condition |-> invalidTLSCondition(ErrNoCertificates), config |-> config]
          ELSE [condition |-> validTLSCondition(loadedTLSConfigurationMessage),
                config |-> config]

\* bug variant: the decoded bytes are put into the config before the
\* certificates are looked for
ValidateTLSConfigKeepingRejectedBundle(tlsSpec, config) ==
  IF tlsSpec.isNil
  THEN [condition |-> validTLSCondition(noTLSConfigurationMessage), config |-> config]
  ELSE IF Len(tlsSpec.CertificateAuthorityData) = 0
  THEN [condition |-> validTLSCondition(loadedTLSConfigurationMessage), config |-> config]
  ELSE LET decoded == DecodeString(tlsSpec.CertificateAuthorityData)
           filled == [config EXCEPT !.CABundle = decoded.bytes]
       IN IF decoded.err # NilErr
          THEN [condition |-> invalidTLSCondition(decoded.err), config |-> config]
          ELSE IF ~AppendCertsFromPEM(decoded.bytes)
          THEN [condition |-> invalidTLSCondition(ErrNoCertificates), config |-> filled]
          ELSE [condition |-> validTLSCondition(loadedTLSConfigurationMessage),
                config |-> filled]

ValidateTLSConfig(tlsSpec, config) ==
  IF tlsSpec.isNil
  THEN [condition |-> validTLSCondition(noTLSConfigurationMessage), config |-> config]
  ELSE IF Len(tlsSpec.CertificateAuthorityData) = 0
  THEN [condition |-> validTLSCondition(loadedTLSConfigurationMessage), config |-> config]
  ELSE LET decoded == DecodeString(tlsSpec.CertificateAuthorityData)
       IN IF decoded.err # NilErr
          THEN [condition |-> invalidTLSCondition(decoded.err), config |-> config]
          ELSE IF ~AppendCertsFromPEM(decoded.bytes)
          THEN [condition |-> invalidTLSCondition(ErrNoCertificates), config |-> config]
          ELSE [condition |-> validTLSCondition(loadedTLSConfigurationMessage),
                config |-> [config EXCEPT !.CABundle = decoded.bytes]]


(***************************************************************************)
(* TestConnection, in the pieces between its two network round trips.      *)
(***************************************************************************)
\* the condition built at the end of TestConnection from the remaining error
ConnectionCondition(config, bindSecretName, currentSecretVersion, err) ==
  IF err # NilErr
  THEN Condition(typeLDAPConnectionValid, ConditionFalse, reasonLDAPConnectionError,
                 Message("could not successfully connect and bind",
                         config.Host, config.BindUsername, "", EmptyVersion, err))
  ELSE Condition(typeLDAPConnectionValid, ConditionTrue, ReasonSuccess,
                 Message("successfully able to connect and bind",
                         config.Host, config.BindUsername, bindSecretName,
                         currentSecretVersion, ""))

\* bug variant: the TLS attempt is made without TLS being put into the config
BeforeTLSAttemptNotSetting(config) == config

\* "First try using TLS."
BeforeTLSAttempt(config) == [config EXCEPT !.ConnectionProtocol = TLS]

\* "If there was any error, try again with StartTLS instead."
BeforeStartTLSAttempt(config) == [config EXCEPT !.ConnectionProtocol = StartTLS]

\* bug variant: the StartTLS attempt is made whatever the TLS attempt gave
TryStartTLSAlways(err) == TRUE

\* "If there was any error, try again with StartTLS instead."
TryStartTLS(err) == err # NilErr

\* bug variant: after a double failure StartTLS stays in the config and the
\* StartTLS attempt's error is the one reported
AfterStartTLSAttemptKeepingStartTLS(config, err, startTLSErr) ==
  IF startTLSErr = NilErr
  THEN [config |-> config, err |-> NilErr]
  ELSE [config |-> config, err |-> startTLSErr]

\* bug variant: a successful fallback does not clear the TLS attempt's error
AfterStartTLSAttemptNotClearing(config, err, startTLSErr) ==
  IF startTLSErr = NilErr
  THEN [config |-> config, err |-> err]
  ELSE [config |-> [config EXCEPT !.ConnectionProtocol = TLS], err |-> err]

\* what TestConnection does with the result of the StartTLS attempt; err is
\* the error of the TLS attempt
AfterStartTLSAttempt(config, err, startTLSErr) ==
  IF startTLSErr = NilErr
  THEN [config |-> config, err |-> NilErr]
  ELSE [config |-> [config EXCEPT !.ConnectionProtocol = TLS], err |-> err]

(***************************************************************************)
(* DetectAndSetSearchBase: the capability of the upstream's spec.  The     *)
(* generic LDAP variant returns nil; the Active Directory variant takes    *)
(* the bases of the spec when both are given and otherwise queries the     *)
(* root entry for the default naming context.  A search result is the      *)
(* error of the query (NilErr when exactly one entry came back).           *)
(***************************************************************************)
LDAPVariant == "LDAP"
ADVariant == "ActiveDirectory"
Variants == {LDAPVariant, ADVariant}

exampleDefaultNamingContext == "dc=default,dc=naming,dc=context,dc=example,dc=com"

SearchBaseCondition(status, reason, text, err) ==
  Condition(TypeSearchBaseFound, status, reason,
            Message(text, "", "", "", EmptyVersion, err))

DetectAndSetSearchBase(upstreamVariant, config, searchErr) ==
  IF upstreamVariant = LDAPVariant
  THEN [condition |-> NilCondition, config |-> config, queried |-> FALSE]
  ELSE IF config.GroupSearchBase # "" /\ config.UserSearchBase # ""
  THEN [condition |-> SearchBaseCondition(ConditionTrue, ReasonUsingConfigurationFromSpec,
                                          "Using search base from config", ""),
        config |-> config, queried |-> FALSE]
  ELSE IF searchErr # NilErr
  THEN [condition |-> SearchBaseCondition(ConditionFalse, ReasonErrorFetchingSearchBase,
                                          "Error finding search base", searchErr),
        config |-> config, queried |-> TRUE]
  ELSE [condition |-> SearchBaseCondition(ConditionTrue, ReasonSuccess,
                                          "Successfully fetched defaultNamingContext", ""),
        config |-> [config EXCEPT
                      !.UserSearchBase =
                         IF @ = "" THEN exampleDefaultNamingContext ELSE @,
                      !.GroupSearchBase =
                         IF @ = "" THEN exampleDefaultNamingContext ELSE @],
        queried |-> TRUE]

(***************************************************************************)
(* GradatedConditions.                                                     *)
(***************************************************************************)
gradatedCondition(condition, isFatal) == [condition |-> condition, isFatal |-> isFatal]

\* bug variant of Append: the new condition is put in front of the list
GradatedPrepend(g, condition, isFatal) == <<gradatedCondition(condition, isFatal)>> \o g

\* GradatedConditions.Append
GradatedAppend(g, condition, isFatal) == Append(g, gradatedCondition(condition, isFatal))

\* GradatedConditions.Conditions
Conditions(g) == [i \in 1..Len(g) |-> g[i].condition]

\* bug variant: a valid secret is enough to go on to the server
ConfigValidBySecretAlone(secretValidCondition, tlsValidCondition) ==
  secretValidCondition.Status = ConditionTrue

\* ValidateGenericLDAP: "No point in trying to connect to the server if the
\* config was already determined to be invalid."
ConfigValid(secretValidCondition, tlsValidCondition) ==
  /\ secretValidCondition.Status = ConditionTrue
  /\ tlsValidCondition.Status = ConditionTrue

\* bug variant: after a failed connection the search-base condition is
\* left out of the list
AppendProbeResultsUnlessFailed(g, ldapConnectionValidCondition, searchBaseFoundCondition) ==
  LET withConn == GradatedAppend(g, ldapConnectionValidCondition, FALSE)
  IN IF /\ searchBaseFoundCondition # NilCondition
        /\ ldapConnectionValidCondition.Status = ConditionTrue
     THEN GradatedAppend(withConn, searchBaseFoundCondition, TRUE)
     ELSE withConn

\* ValidateGenericLDAP: the connection condition is appended as non-fatal
\* and the search-base condition, when not nil, as fatal
AppendProbeResults(g, ldapConnectionValidCondition, searchBaseFoundCondition) ==
  LET withConn == GradatedAppend(g, ldapConnectionValidCondition, FALSE)
  IN IF searchBaseFoundCondition # NilCondition
     THEN GradatedAppend(withConn, searchBaseFoundCondition, TRUE)
     ELSE withConn

(***************************************************************************)
(* validateAndSetLDAPServerConnectivityAndSearchBase, in its pieces.       *)
(***************************************************************************)
\* bug variant: a true connection condition in the upstream's status for the
\* current generation is taken as proof of an earlier validation
PreviousValidatedSettingsTrustingStatus(s, up, st, currentSecretVersion) ==
  IF /\ up.name \in DOMAIN s
     /\ \E i \in 1..Len(st) :
          /\ st[i].condition.Type = typeLDAPConnectionValid
          /\ st[i].condition.Status = ConditionTrue
          /\ st[i].ObservedGeneration = up.generation
  THEN [settings |-> s[up.name], found |-> TRUE]
  ELSE Get(s, up.name, currentSecretVersion, up.generation)

\* the lookup of previously validated settings: the upstream gives its name
\* and generation, its status st is not read
PreviousValidatedSettings(s, up, st, currentSecretVersion) ==
  Get(s, up.name, currentSecretVersion, up.generation)

\* bug variant: the cache is written but never trusted
UsePreviousNever(got) == FALSE

\* bug variant: a matching entry is used whatever its search bases are
UsePreviousIgnoringBases(got) == got.found

\* the test that chooses between reusing the cached entry and probing
UsePrevious(got) ==
  /\ got.found
  /\ got.settings.UserSearchBase # ""
  /\ got.settings.GroupSearchBase # ""

\* bug variant: the cached protocol is not put back into the config
ApplyCachedWithoutProtocol(config, validatedSettings) ==
  [config EXCEPT !.UserSearchBase = validatedSettings.UserSearchBase,
                 !.GroupSearchBase = validatedSettings.GroupSearchBase]

\* the cached settings are put into the config
ApplyCached(config, validatedSettings) ==
  [config EXCEPT !.ConnectionProtocol = validatedSettings.LDAPConnectionProtocol,
                 !.UserSearchBase = validatedSettings.UserSearchBase,
                 !.GroupSearchBase = validatedSettings.GroupSearchBase]

\* bug variant: only the connection condition decides
NoFailuresIgnoringSearchBase(ldapConnectionValidCondition, searchBaseFoundCondition) ==
  ldapConnectionValidCondition.Status = ConditionTrue

\* bug variant: every probed result is cached
NoFailuresAlways(ldapConnectionValidCondition, searchBaseFoundCondition) == TRUE

\* bug variant: only the search-base condition decides
NoFailuresBySearchBaseAlone(ldapConnectionValidCondition, searchBaseFoundCondition) ==
  \/ searchBaseFoundCondition = NilCondition
  \/ searchBaseFoundCondition.Status = ConditionTrue

\* bug variant: one of the two results being true is enough
NoFailuresWhenEitherSucceeded(ldapConnectionValidCondition, searchBaseFoundCondition) ==
  \/ ldapConnectionValidCondition.Status = ConditionTrue
  \/ /\ searchBaseFoundCondition # NilCondition
     /\ searchBaseFoundCondition.Status = ConditionTrue

\* bug variant: the cache is never written
NoFailuresNever(ldapConnectionValidCondition, searchBaseFoundCondition) == FALSE

\* "When there were no failures, write the newly validated settings to the cache."
NoFailures(ldapConnectionValidCondition, searchBaseFoundCondition) ==
  /\ ldapConnectionValidCondition.Status = ConditionTrue
  /\ \/ searchBaseFoundCondition = NilCondition
     \/ searchBaseFoundCondition.Status = ConditionTrue

\* bug variant: the settings are cached without the two conditions
NewValidatedSettingsWithoutConditions(up, currentSecretVersion, config, connCond, sbCond) ==
  ValidatedSettings(up.generation, currentSecretVersion, config.ConnectionProtocol,
                    config.UserSearchBase, config.GroupSearchBase,
                    NilCondition, NilCondition)

\* bug variant: the search bases of the spec are cached, not the resolved ones
NewValidatedSettingsFromSpec(up, currentSecretVersion, config, connCond, sbCond) ==
  ValidatedSettings(up.generation, currentSecretVersion, config.ConnectionProtocol,
                    up.userBase, up.groupBase,
                    DeepCopy(connCond), DeepCopy(sbCond))

\* the entry written to the cache
NewValidatedSettings(up, currentSecretVersion, config, connCond, sbCond) ==
  ValidatedSettings(up.generation, currentSecretVersion, config.ConnectionProtocol,
                    config.UserSearchBase, config.GroupSearchBase,
                    DeepCopy(connCond), DeepCopy(sbCond))

(***************************************************************************)
(* EvaluateConditions.  The provider is upstreamldap.New of the           *)
(* dereferenced config: a copy of the config.                              *)
(***************************************************************************)
NilProvider == [isNil |-> TRUE, config |-> NewConfig("", "")]
New(config) == [isNil |-> FALSE, config |-> config]

RECURSIVE FirstFailure(_, _)
\* index of the first condition from i on that is not true, 0 when none
FirstFailure(g, i) ==
  IF i > Len(g) THEN 0
  ELSE IF g[i].condition.Status # ConditionTrue THEN i
  ELSE FirstFailure(g, i + 1)

\* bug variant: one loop over the list that decides at the first failure
EvaluateConditionsInOneLoop(conditions, config) ==
  LET i == FirstFailure(conditions, 1)
  IN IF i = 0 THEN [provider |-> New(config), requeue |-> FALSE]
     ELSE IF conditions[i].isFatal THEN [provider |-> NilProvider, requeue |-> TRUE]
     ELSE [provider |-> New(config), requeue |-> TRUE]

\* bug variant: a failure that is not fatal does not ask for a retry
EvaluateConditionsNoRetryOnAdvisory(conditions, config) ==
  IF \E i \in 1..Len(conditions) :
        conditions[i].condition.Status # ConditionTrue /\ conditions[i].isFatal
  THEN [provider |-> NilProvider, requeue |-> TRUE]
  ELSE [provider |-> New(config), requeue |-> FALSE]

EvaluateConditions(conditions, config) ==
  IF \E i \in 1..Len(conditions) :
        conditions[i].condition.Status # ConditionTrue /\ conditions[i].isFatal
  THEN [provider |-> NilProvider, requeue |-> TRUE]
  ELSE IF \E i \in 1..Len(conditions) :
        conditions[i].condition.Status # ConditionTrue /\ ~conditions[i].isFatal
  THEN [provider |-> New(config), requeue |-> TRUE]
  ELSE [provider |-> New(config), requeue |-> FALSE]


(***************************************************************************)
(* Inputs the environment chooses from.                                    *)
(***************************************************************************)
testUserSearchBase == "test-user-search-base"
testGroupSearchBase == "test-group-search-base"
testBindUsername == "test-bind-username"
testBindPassword == "test-bind-password"

testSecretName == "test-bind-secret"
otherSecretName == "other-bind-secret"

\* the upstream descriptor: name, generation, and of its spec the name of the
\* bind secret and the two search bases
Upstream(name, generation, secretName, userBase, groupBase) ==
  [name |-> name, generation |-> generation, secretName |-> secretName,
   userBase |-> userBase, groupBase |-> groupBase]

NoUpstream == Upstream("", 0, "", "", "")

\* search bases of a spec: each one given or left empty
SpecBases ==
  {<<testUserSearchBase, testGroupSearchBase>>, <<"", testGroupSearchBase>>,
   <<testUserSearchBase, "">>, <<"", "">>}

\* idp1 is presented at every generation and with every choice of search
\* bases; idp2 is a second upstream of the same controller whose spec stays
\* as it is, with both search bases given
Upstreams ==
  { Upstream("idp1", g, testSecretName, b[1], b[2]) : g \in Generations, b \in SpecBases }
  \cup {Upstream("idp2", 1, otherSecretName, testUserSearchBase, testGroupSearchBase)}

\* the resource versions the bind secrets go through
SecretVersions(secretName) ==
  IF secretName = testSecretName THEN {"4241", "4242"} ELSE {"7"}

\* what the secret lister may return for a bind secret
SecretLookups(secretName) ==
  {Secret(SecretNotFoundErr, "", "", "", EmptyVersion)}
  \cup { Secret(NilErr, t, u, p, v) :
           t \in {"some-other-type"}, u \in {testBindUsername},
           p \in {testBindPassword}, v \in SecretVersions(secretName) }
  \cup { Secret(NilErr, LDAPBindAccountSecretType, c[1], c[2], v) :
           c \in {<<testBindUsername, testBindPassword>>, <<"", testBindPassword>>,
                  <<testBindUsername, "">>},
           v \in SecretVersions(secretName) }

TLSSpecs ==
  {NilTLSSpec}
  \cup { TLSSpec(d) : d \in {"", malformedCAData, noCertCAData, testCABundleBase64Encoded} }

\* an entry of the log of network operations: the operation and its error
NetOp(op, e) == [op |-> op, err |-> e]
DetectOp == "DetectAndSetSearchBase"

\* results of the two dials of TestConnection
TLSResults == {NilErr, "some ldaps dial error"}
StartTLSResults == {NilErr, "some starttls dial error"}

\* results of the query for the default naming context
SearchResults ==
  {NilErr, "some error", "expected to find 1 entry but found 0"}

(***************************************************************************)
(* State.                                                                  *)
(***************************************************************************)
VARIABLES
  variant,      \* the kind of upstream the controller owning the cache watches
  cache,        \* ValidatedSettingsCache.ValidatedSettingsByName
  pc,           \* position of the running validation pass
  upstream,     \* the upstream the pass validates
  secret,       \* what the secret lister returned for the upstream's bind secret
  tlsSpec,      \* the TLS block of the upstream's spec
  config,       \* the ProviderConfig the pass fills in
  currentSecretVersion,          \* second result of ValidateSecret
  conditions,                    \* the GradatedConditions of ValidateGenericLDAP
  ldapConnectionValidCondition,  \* local of validateAndSet...
  searchBaseFoundCondition,      \* local of validateAndSet...
  err,          \* local err of TestConnection
  path,         \* "hit" or "probe" once the cache was consulted, "" before
  net,          \* the network operations of the pass and their errors, in order
  cacheOps,     \* the cache operations of the pass, in order
  startCache,   \* the cache as it was when the pass started
  result,       \* what EvaluateConditions returned
  setLog,       \* SpecCache: every (name, version, generation) ever Set
  lastSet,      \* SpecCache: per name the settings given to the latest Set
  got,          \* SpecCache: the latest Get call and what it returned
  calls,        \* SpecConcurrent: per goroutine its Get or Set call in progress
  fault,        \* SpecConcurrent: the fatal error of the Go runtime, "" when none
  identity,     \* SpecIdentity: namespace and UID of the upstream of the pass
  owner,        \* SpecIdentity: per name the namespace and UID of the upstream whose
                \* pass wrote the name's entry
  env,          \* SpecLive: what the upstream, its secret and its server have
                \* settled to, once they have
  status,       \* SpecStatus: the conditions in the status of the upstream of the pass
  heap,         \* SpecCopy: the Condition objects allocated so far, by address
  handed,       \* SpecCopy: the addresses of the conditions last returned to the caller
  cachedValue,  \* SpecCopy: per name the conditions as they were when Set stored them
  firstPass,    \* SpecRepeat: per name what the pass that wrote the entry returned
  failedKeys    \* SpecRetry: the (name, generation, secret version) of a probing
                \* pass that ended in a failure, kept until a probing pass for
                \* the same name succeeds; at most one pass is remembered

vars ==
  <<variant, cache, pc, upstream, secret, tlsSpec, config, currentSecretVersion, conditions,
    ldapConnectionValidCondition, searchBaseFoundCondition, err, path, net,
    cacheOps, startCache, result, setLog, lastSet, got, calls, fault, failedKeys, firstPass, heap, handed, cachedValue,
    status, identity, owner, env>>

passVars ==
  <<upstream, secret, tlsSpec, config, currentSecretVersion, conditions,
    ldapConnectionValidCondition, searchBaseFoundCondition, err, path, net,
    cacheOps, startCache, result>>

\* what the specifications of single aspects record or choose besides
identityVars == <<identity, owner>>
observerVars == <<firstPass, heap, handed, cachedValue, status, identityVars, env>>

\* ObjectMeta.Namespace and ObjectMeta.UID of an upstream
Identity(namespace, uid) == [namespace |-> namespace, uid |-> uid]
NoIdentity == Identity("", "")

\* the upstream, its secret and its server still change
NoEnv == [stable |-> FALSE]

\* no conditions returned yet
NoHanded ==
  [op |-> "", name |-> "", generation |-> 0, conn |-> 0, sb |-> 0, refreshed |-> FALSE]

cacheCallVars == <<setLog, lastSet, got, calls, fault, failedKeys, observerVars>>

NoResult == [provider |-> NilProvider, requeue |-> FALSE]
NoGet == [called |-> FALSE, name |-> "", version |-> EmptyVersion, generation |-> 0,
          settings |-> ZeroSettings, found |-> FALSE]

\* the two inputs of a pass before they are read
NoSecret == Secret(NilErr, "", "", "", EmptyVersion)
NoTLSSpec == NilTLSSpec

IdlePass ==
  /\ upstream = NoUpstream
  /\ secret = NoSecret
  /\ tlsSpec = NoTLSSpec
  /\ config = NewConfig("", "")
  /\ currentSecretVersion = EmptyVersion
  /\ conditions = <<>>
  /\ ldapConnectionValidCondition = NilCondition
  /\ searchBaseFoundCondition = NilCondition
  /\ err = NilErr
  /\ path = ""
  /\ net = <<>>
  /\ cacheOps = <<>>
  /\ startCache = NewValidatedSettingsCache
  /\ result = NoResult

\* the goroutines that run validation passes in parallel, each for the
\* upstream of its own
Goroutines == {"g1", "g2"}
UpstreamOf(g) == IF g = "g1" THEN "idp1" ELSE "idp2"

\* a call of Get or Set that has entered the method and not yet left it;
\* raced tells that it overlapped an access of another goroutine to the map
Call(op, name, version, generation, settings, raced) ==
  [op |-> op, name |-> name, version |-> version, generation |-> generation,
   settings |-> settings, raced |-> raced]
NoCall == Call("", "", EmptyVersion, 0, ZeroSettings, FALSE)
NoFault == ""

IdleCacheCalls ==
  /\ setLog = {}
  /\ lastSet = [n \in {} |-> ZeroSettings]
  /\ got = NoGet
  /\ calls = [g \in Goroutines |-> NoCall]
  /\ fault = NoFault
  /\ failedKeys = {}
  /\ firstPass = [n \in {} |-> <<>>]
  /\ heap = <<>>
  /\ handed = NoHanded
  /\ cachedValue = [n \in {} |-> <<>>]
  /\ status = <<>>
  /\ identity = NoIdentity
  /\ owner = [n \in {} |-> NoIdentity]
  /\ env = NoEnv

Init ==
  /\ variant \in Variants
  /\ cache = NewValidatedSettingsCache
  /\ pc = "idle"
  /\ IdlePass
  /\ IdleCacheCalls

(***************************************************************************)
(* A validation pass: ValidateGenericLDAP followed by EvaluateConditions.  *)
(***************************************************************************)
\* the controller builds a fresh config from the upstream's spec and calls
\* ValidateGenericLDAP
StartPass ==
  /\ pc \in {"idle", "done"}
  /\ \E up \in Upstreams :
       /\ upstream' = up
       /\ config' = NewConfig(up.userBase, up.groupBase)
  /\ secret' = NoSecret
  /\ tlsSpec' = NoTLSSpec
  /\ currentSecretVersion' = EmptyVersion
  /\ conditions' = <<>>
  /\ ldapConnectionValidCondition' = NilCondition
  /\ searchBaseFoundCondition' = NilCondition
  /\ err' = NilErr
  /\ path' = ""
  /\ net' = <<>>
  /\ cacheOps' = <<>>
  /\ startCache' = cache
  /\ result' = NoResult
  /\ pc' = "ValidateSecret"
  /\ UNCHANGED <<variant, cache, cacheCallVars>>

\* ValidateGenericLDAP: ValidateSecret and the first Append
DoValidateSecret ==
  /\ pc = "ValidateSecret"
  /\ \E found \in SecretLookups(upstream.secretName) :
       LET r == ValidateSecret(found, upstream.secretName, config)
       IN /\ secret' = found
          /\ config' = r.config
          /\ currentSecretVersion' = r.resourceVersion
          /\ conditions' = GradatedAppend(conditions, r.condition, TRUE)
  /\ pc' = "ValidateTLSConfig"
  /\ UNCHANGED <<variant, cache, upstream, tlsSpec, ldapConnectionValidCondition,
                 searchBaseFoundCondition, err, path, net, cacheOps, startCache,
                 result, cacheCallVars>>

\* ValidateGenericLDAP: ValidateTLSConfig, the second Append and the test
\* "No point in trying to connect to the server if the config was already
\* determined to be invalid."
DoValidateTLSConfig ==
  /\ pc = "ValidateTLSConfig"
  /\ \E spec \in TLSSpecs :
       LET r == ValidateTLSConfig(spec, config)
       IN /\ tlsSpec' = spec
          /\ config' = r.config
          /\ conditions' = GradatedAppend(conditions, r.condition, TRUE)
          /\ pc' = IF ConfigValid(conditions[1].condition, r.condition)
                   THEN "Get" ELSE "Returned"
  /\ UNCHANGED <<variant, cache, upstream, secret, currentSecretVersion,
                 ldapConnectionValidCondition, searchBaseFoundCondition, err, path,
                 net, cacheOps, startCache, result, cacheCallVars>>

\* validateAndSet...: the cache lookup and, on a usable entry, its reuse
DoCacheGet ==
  /\ pc = "Get"
  /\ LET g == PreviousValidatedSettings(cache, upstream, status, currentSecretVersion)
     IN IF UsePrevious(g)
        THEN /\ config' = ApplyCached(config, g.settings)
             /\ ldapConnectionValidCondition' = DeepCopy(g.settings.ConnectionValidCondition)
             /\ searchBaseFoundCondition' = DeepCopy(g.settings.SearchBaseFoundCondition)
             /\ path' = "hit"
             /\ pc' = "Append"
        ELSE /\ UNCHANGED <<config, ldapConnectionValidCondition, searchBaseFoundCondition>>
             /\ path' = "probe"
             /\ pc' = "TLS"
  /\ cacheOps' = Append(cacheOps, "Get")
  /\ UNCHANGED <<variant, cache, upstream, secret, tlsSpec,
                 currentSecretVersion, conditions, err, net,
                 startCache, result, cacheCallVars>>

\* TestConnection: the attempt over TLS
DoTLSAttempt ==
  /\ pc = "TLS"
  /\ \E tlsErr \in TLSResults :
       /\ config' = BeforeTLSAttempt(config)
       /\ err' = tlsErr
       /\ IF ~TryStartTLS(tlsErr)
          THEN /\ ldapConnectionValidCondition' =
                    ConnectionCondition(config', upstream.secretName, currentSecretVersion, tlsErr)
               /\ pc' = "DetectSearchBase"
          ELSE /\ UNCHANGED ldapConnectionValidCondition
               /\ pc' = "StartTLS"
  /\ net' = Append(net, NetOp(TLS, err'))
  /\ UNCHANGED <<variant, cache, upstream, secret, tlsSpec,
                 currentSecretVersion, conditions,
                 searchBaseFoundCondition, path, cacheOps, startCache, result,
                 cacheCallVars>>

\* TestConnection: the attempt over StartTLS after the TLS attempt failed
DoStartTLSAttempt ==
  /\ pc = "StartTLS"
  /\ \E startTLSErr \in StartTLSResults :
       LET r == AfterStartTLSAttempt(BeforeStartTLSAttempt(config), err, startTLSErr)
       IN /\ config' = r.config
          /\ err' = r.err
          /\ ldapConnectionValidCondition' =
               ConnectionCondition(r.config, upstream.secretName, currentSecretVersion, r.err)
          /\ net' = Append(net, NetOp(StartTLS, startTLSErr))
  /\ pc' = "DetectSearchBase"
  /\ UNCHANGED <<variant, cache, upstream, secret, tlsSpec,
                 currentSecretVersion, conditions,
                 searchBaseFoundCondition, path, cacheOps, startCache, result,
                 cacheCallVars>>

\* validateAndSet...: DetectAndSetSearchBase and the test for failures
DoDetectSearchBase ==
  /\ pc = "DetectSearchBase"
  /\ \E searchErr \in SearchResults :
       LET r == DetectAndSetSearchBase(variant, config, searchErr)
       IN /\ config' = r.config
          /\ searchBaseFoundCondition' = r.condition
          /\ pc' = IF NoFailures(ldapConnectionValidCondition, r.condition)
                   THEN "Set" ELSE "Append"
          /\ net' = Append(net, NetOp(DetectOp, IF r.queried THEN searchErr ELSE NilErr))
  /\ UNCHANGED <<variant, cache, upstream, secret, tlsSpec,
                 currentSecretVersion, conditions,
                 ldapConnectionValidCondition, err, path, cacheOps, startCache,
                 result, cacheCallVars>>

\* validateAndSet...: the newly validated settings are written to the cache
DoCacheSet ==
  /\ pc = "Set"
  /\ cache' = Set(cache, upstream.name,
                  NewValidatedSettings(upstream, currentSecretVersion, config,
                                       ldapConnectionValidCondition,
                                       searchBaseFoundCondition))
  /\ cacheOps' = Append(cacheOps, "Set")
  /\ pc' = "Append"
  /\ UNCHANGED <<variant, upstream, secret, tlsSpec, config, currentSecretVersion, conditions,
                 ldapConnectionValidCondition, searchBaseFoundCondition, err, path,
                 net, startCache, result, cacheCallVars>>

\* ValidateGenericLDAP: the connection condition and, when not nil, the
\* search-base condition are appended, and the list is returned
DoAppend ==
  /\ pc = "Append"
  /\ conditions' =
       AppendProbeResults(conditions, ldapConnectionValidCondition,
                          searchBaseFoundCondition)
  /\ pc' = "Returned"
  /\ UNCHANGED <<variant, cache, upstream, secret, tlsSpec, config,
                 currentSecretVersion,
                 ldapConnectionValidCondition, searchBaseFoundCondition, err, path,
                 net, cacheOps, startCache, result, cacheCallVars>>

\* the controller hands the returned list and the config to EvaluateConditions
DoEvaluate ==
  /\ pc = "Returned"
  /\ result' = EvaluateConditions(conditions, config)
  /\ pc' = "done"
  /\ UNCHANGED <<variant, cache, upstream, secret, tlsSpec, config,
                 currentSecretVersion, conditions,
                 ldapConnectionValidCondition, searchBaseFoundCondition, err, path,
                 net, cacheOps, startCache, cacheCallVars>>

Next ==
  \/ StartPass
  \/ DoValidateSecret
  \/ DoValidateTLSConfig
  \/ DoCacheGet
  \/ DoTLSAttempt
  \/ DoStartTLSAttempt
  \/ DoDetectSearchBase
  \/ DoCacheSet
  \/ DoAppend
  \/ DoEvaluate

Spec == Init /\ [][Next]_vars


(***************************************************************************)
(* Passes one after the other, with a record of a failed one.  At the end  *)
(* of a probing pass that failed the record may take up the pass's (name,  *)
(* generation, secret version) or stay as it is, so that any one failed    *)
(* pass of a run may be the remembered one; a probing pass for the same    *)
(* name that succeeds clears it.  The upstreams are idp1 at every          *)
(* generation with both search bases given or both left blank, and idp2.   *)
(***************************************************************************)
RetryUpstreams ==
  { up \in Upstreams : (up.userBase = "") <=> (up.groupBase = "") }

StartRetryPass ==
  /\ pc \in {"idle", "done"}
  /\ \E up \in RetryUpstreams :
       /\ upstream' = up
       /\ config' = NewConfig(up.userBase, up.groupBase)
  /\ secret' = NoSecret
  /\ tlsSpec' = NoTLSSpec
  /\ currentSecretVersion' = EmptyVersion
  /\ conditions' = <<>>
  /\ ldapConnectionValidCondition' = NilCondition
  /\ searchBaseFoundCondition' = NilCondition
  /\ err' = NilErr
  /\ path' = ""
  /\ net' = <<>>
  /\ cacheOps' = <<>>
  /\ startCache' = cache
  /\ result' = NoResult
  /\ pc' = "ValidateSecret"
  /\ UNCHANGED <<variant, cache, cacheCallVars>>

\* the key of the running pass
PassKey == <<upstream.name, upstream.generation, currentSecretVersion>>

DoEvaluateRecorded ==
  /\ pc = "Returned"
  /\ result' = EvaluateConditions(conditions, config)
  /\ pc' = "done"
  /\ failedKeys' \in
       LET succeeded ==
             /\ ldapConnectionValidCondition.Status = ConditionTrue
             /\ \/ searchBaseFoundCondition = NilCondition
                \/ searchBaseFoundCondition.Status = ConditionTrue
       IN IF path # "probe" THEN {failedKeys}
          ELSE IF succeeded THEN {{k \in failedKeys : k[1] # upstream.name}}
          ELSE {failedKeys, {PassKey}}
  /\ UNCHANGED <<variant, cache, upstream, secret, tlsSpec, config,
                 currentSecretVersion, conditions,
                 ldapConnectionValidCondition, searchBaseFoundCondition, err, path,
                 net, cacheOps, startCache, setLog, lastSet, got, calls, fault,
                 observerVars>>

NextRetry ==
  \/ StartRetryPass
  \/ DoValidateSecret
  \/ DoValidateTLSConfig
  \/ DoCacheGet
  \/ DoTLSAttempt
  \/ DoStartTLSAttempt
  \/ DoDetectSearchBase
  \/ DoCacheSet
  \/ DoAppend
  \/ DoEvaluateRecorded

SpecRetry == Init /\ [][NextRetry]_vars

(***************************************************************************)
(* Passes one after the other, with a record per name of what the pass     *)
(* that wrote the name's entry returned: the conditions of its list and    *)
(* the protocol and search bases it left in the config.                    *)
(***************************************************************************)
DoAppendRecorded ==
  /\ pc = "Append"
  /\ conditions' =
       AppendProbeResults(conditions, ldapConnectionValidCondition,
                          searchBaseFoundCondition)
  /\ pc' = "Returned"
  /\ firstPass' =
       IF cacheOps = <<"Get", "Set">>
       THEN [n \in DOMAIN firstPass \cup {upstream.name} |->
               IF n = upstream.name
               THEN [list |-> Conditions(conditions'),
                     ConnectionProtocol |-> config.ConnectionProtocol,
                     UserSearchBase |-> config.UserSearchBase,
                     GroupSearchBase |-> config.GroupSearchBase]
               ELSE firstPass[n]]
       ELSE firstPass
  /\ UNCHANGED <<variant, cache, upstream, secret, tlsSpec, config,
                 currentSecretVersion,
                 ldapConnectionValidCondition, searchBaseFoundCondition, err, path,
                 net, cacheOps, startCache, result, setLog, lastSet, got, calls,
                 fault, failedKeys, heap, handed, cachedValue, status, identityVars, env>>

NextRepeat ==
  \/ StartRetryPass
  \/ DoValidateSecret
  \/ DoValidateTLSConfig
  \/ DoCacheGet
  \/ DoTLSAttempt
  \/ DoStartTLSAttempt
  \/ DoDetectSearchBase
  \/ DoCacheSet
  \/ DoAppendRecorded
  \/ DoEvaluate

SpecRepeat == Init /\ [][NextRepeat]_vars

(***************************************************************************)
(* The conditions as Go objects.  ValidatedSettings holds two pointers to  *)
(* Condition objects; here a pointer is an address into heap, 0 is nil,    *)
(* and the cache's two condition fields hold addresses.  An object carries *)
(* the condition's payload and the ObservedGeneration that the caller      *)
(* fills in when it writes the condition into the upstream's status.       *)
(***************************************************************************)
Object(c, observedGeneration) ==
  [condition |-> c, ObservedGeneration |-> observedGeneration]

NilObject == Object(NilCondition, 0)

Deref(h, a) == IF a = 0 THEN NilObject ELSE h[a]

\* &v1alpha1.Condition{...}: a new object; a nil result allocates nothing
NewCondition(h, c) ==
  IF c = NilCondition
  THEN [heap |-> h, addr |-> 0]
  ELSE [heap |-> Append(h, Object(c, 0)), addr |-> Len(h) + 1]

\* bug variant of DeepCopy: the receiver itself is returned
DeepCopyAliasing(h, a) == [heap |-> h, addr |-> a]

\* (*Condition).DeepCopy on the object at address a: nil for nil, otherwise
\* a new object with equal fields
DeepCopyObject(h, a) ==
  IF a = 0
  THEN [heap |-> h, addr |-> 0]
  ELSE [heap |-> Append(h, h[a]), addr |-> Len(h) + 1]

InitCopy ==
  /\ variant \in Variants
  /\ cache = NewValidatedSettingsCache
  /\ pc = "copy"
  /\ IdlePass
  /\ IdleCacheCalls

\* validateAndSet..., the branch that probes, with a probe that succeeds over
\* TLS: the two results are new objects, Set stores copies of them, the
\* results themselves are returned
ProbeAndStore ==
  /\ pc = "copy"
  /\ Len(heap) + 4 <= MaxObjects
  /\ \E up \in RetryUpstreams : \E v \in SecretVersions(up.secretName) :
       LET cfg == BeforeTLSAttempt(NewConfig(up.userBase, up.groupBase))
           r == DetectAndSetSearchBase(variant, cfg, NilErr)
           conn == NewCondition(heap, ConnectionCondition(cfg, up.secretName, v, NilErr))
           sb == NewCondition(conn.heap, r.condition)
           connCopy == DeepCopyObject(sb.heap, conn.addr)
           sbCopy == DeepCopyObject(connCopy.heap, sb.addr)
       IN /\ heap' = sbCopy.heap
          /\ cache' = Set(cache, up.name,
                          ValidatedSettings(up.generation, v, cfg.ConnectionProtocol,
                                            r.config.UserSearchBase,
                                            r.config.GroupSearchBase,
                                            connCopy.addr, sbCopy.addr))
          /\ handed' = [op |-> "probe", name |-> up.name,
                        generation |-> up.generation, conn |-> conn.addr,
                        sb |-> sb.addr, refreshed |-> FALSE]
          /\ cachedValue' =
               [n \in DOMAIN cachedValue \cup {up.name} |->
                  IF n = up.name
                  THEN [conn |-> Deref(sbCopy.heap, connCopy.addr),
                        sb |-> Deref(sbCopy.heap, sbCopy.addr)]
                  ELSE cachedValue[n]]
  /\ UNCHANGED <<variant, pc, passVars, setLog, lastSet, got, calls, fault,
                 failedKeys, firstPass, status, identityVars, env>>

\* validateAndSet..., the branch that reuses the entry: copies of the two
\* cached conditions are returned
HitAndReturn ==
  /\ pc = "copy"
  /\ Len(heap) + 2 <= MaxObjects
  /\ \E n \in DOMAIN cache :
       LET g == Get(cache, n, cache[n].BindSecretResourceVersion,
                    cache[n].IDPSpecGeneration)
           conn == DeepCopyObject(heap, g.settings.ConnectionValidCondition)
           sb == DeepCopyObject(conn.heap, g.settings.SearchBaseFoundCondition)
       IN /\ UsePrevious(g)
          /\ heap' = sb.heap
          /\ handed' = [op |-> "hit", name |-> n,
                        generation |-> cache[n].IDPSpecGeneration,
                        conn |-> conn.addr, sb |-> sb.addr, refreshed |-> FALSE]
  /\ UNCHANGED <<variant, cache, pc, passVars, setLog, lastSet, got, calls, fault,
                 failedKeys, firstPass, cachedValue, status, identityVars, env>>

\* the caller writes the upstream's generation into a condition it was
\* handed, as its observed generation
CallerRefresh ==
  /\ pc = "copy"
  /\ \E a \in {handed.conn, handed.sb} \ {0} :
       /\ heap[a].ObservedGeneration # handed.generation
       /\ heap' = [heap EXCEPT ![a].ObservedGeneration = handed.generation]
  /\ handed' = [handed EXCEPT !.refreshed = TRUE]
  /\ UNCHANGED <<variant, cache, pc, passVars, setLog, lastSet, got, calls, fault,
                 failedKeys, firstPass, cachedValue, status, identityVars, env>>

NextCopy == ProbeAndStore \/ HitAndReturn \/ CallerRefresh

SpecCopy == InitCopy /\ [][NextCopy]_vars

(***************************************************************************)
(* Passes for upstreams whose status already holds conditions, written by  *)
(* an earlier pass of this or of an earlier process.                       *)
(***************************************************************************)
\* the locals of a pass that starts for upstream up
ResetPass(up) ==
  /\ upstream' = up
  /\ config' = NewConfig(up.userBase, up.groupBase)
  /\ secret' = NoSecret
  /\ tlsSpec' = NoTLSSpec
  /\ currentSecretVersion' = EmptyVersion
  /\ conditions' = <<>>
  /\ ldapConnectionValidCondition' = NilCondition
  /\ searchBaseFoundCondition' = NilCondition
  /\ err' = NilErr
  /\ path' = ""
  /\ net' = <<>>
  /\ cacheOps' = <<>>
  /\ startCache' = cache
  /\ result' = NoResult
  /\ pc' = "ValidateSecret"

\* what upstream.Status().Conditions() may hold: nothing, a true connection
\* condition of the current generation for some version of the bind secret,
\* or a failed connection condition of the current generation
StatusConditions(up) ==
  {<<>>}
  \cup { <<Object(ConnectionCondition(NewConfig("", ""), up.secretName, v, NilErr),
                  up.generation)>> : v \in SecretVersions(up.secretName) }
  \cup { <<Object(ConnectionCondition(NewConfig("", ""), up.secretName, EmptyVersion,
                                      "some-error-message"),
                  up.generation)>> }

StartPassWithStatus ==
  /\ pc \in {"idle", "done"}
  /\ \E up \in RetryUpstreams :
       /\ ResetPass(up)
       /\ status' \in StatusConditions(up)
  /\ UNCHANGED <<variant, cache, setLog, lastSet, got, calls, fault, failedKeys,
                 firstPass, heap, handed, cachedValue, identityVars, env>>

NextStatus ==
  \/ StartPassWithStatus
  \/ DoValidateSecret
  \/ DoValidateTLSConfig
  \/ DoCacheGet
  \/ DoTLSAttempt
  \/ DoStartTLSAttempt
  \/ DoDetectSearchBase
  \/ DoCacheSet
  \/ DoAppend
  \/ DoEvaluate

SpecStatus == Init /\ [][NextStatus]_vars

(***************************************************************************)
(* Passes for upstreams told apart by namespace and UID as well as by      *)
(* name: an upstream in another namespace with the same name, and an       *)
(* upstream deleted and created again under its name, whose generation     *)
(* starts over.  The bind secret of the same name may carry the same       *)
(* resource version for each of them.                                      *)
(***************************************************************************)
testNamespace == "test-namespace"
testResourceUID == "test-uid"

Identities ==
  {Identity(testNamespace, testResourceUID),
   Identity("other-namespace", "other-uid"),
   Identity(testNamespace, "recreated-uid")}

IdentityUpstreams == { up \in RetryUpstreams : up.name = "idp1" }

StartPassOfIdentity ==
  /\ pc \in {"idle", "done"}
  /\ \E up \in IdentityUpstreams : ResetPass(up)
  /\ identity' \in Identities
  /\ UNCHANGED <<variant, cache, setLog, lastSet, got, calls, fault, failedKeys,
                 firstPass, heap, handed, cachedValue, status, owner, env>>

\* validateAndSet...: the newly validated settings are written to the cache
\* under the upstream's name
DoCacheSetRecorded ==
  /\ pc = "Set"
  /\ cache' = Set(cache, upstream.name,
                  NewValidatedSettings(upstream, currentSecretVersion, config,
                                       ldapConnectionValidCondition,
                                       searchBaseFoundCondition))
  /\ cacheOps' = Append(cacheOps, "Set")
  /\ pc' = "Append"
  /\ owner' = [n \in DOMAIN owner \cup {upstream.name} |->
                 IF n = upstream.name THEN identity ELSE owner[n]]
  /\ UNCHANGED <<variant, upstream, secret, tlsSpec, config, currentSecretVersion, conditions,
                 ldapConnectionValidCondition, searchBaseFoundCondition, err, path,
                 net, startCache, result, setLog, lastSet, got, calls, fault, failedKeys,
                 firstPass, heap, handed, cachedValue, status, identity, env>>

NextIdentity ==
  \/ StartPassOfIdentity
  \/ DoValidateSecret
  \/ DoValidateTLSConfig
  \/ DoCacheGet
  \/ DoTLSAttempt
  \/ DoStartTLSAttempt
  \/ DoDetectSearchBase
  \/ DoCacheSetRecorded
  \/ DoAppend
  \/ DoEvaluate

SpecIdentity == Init /\ [][NextIdentity]_vars

(***************************************************************************)
(* Passes that keep being run for an upstream whose surroundings settle:   *)
(* from some pass on the upstream's spec and generation, its bind secret   *)
(* and its TLS block stay as they are and are valid, the server accepts    *)
(* the connection over one of the two protocols, and the query for the     *)
(* default naming context, where one is made, succeeds.  The caller runs   *)
(* the next pass when one has returned, and each step of a pass ends, the  *)
(* network operations by their timeout at the latest.                      *)
(***************************************************************************)
LiveUpstreams == IdentityUpstreams

\* the resource version and the CA bundle that the secret and the TLS block
\* settle at
settledSecretVersion == "4242"
settledTLSSpec == TLSSpec(testCABundleBase64Encoded)

\* the settled surroundings: a valid secret, a valid TLS block, and the
\* protocol the server accepts
GoodEnvs ==
  { [stable |-> TRUE, upstream |-> up, secret |-> sec, tlsSpec |-> t, accepts |-> p] :
      up \in LiveUpstreams,
      sec \in { x \in SecretLookups(testSecretName) :
                  /\ x.ResourceVersion = settledSecretVersion
                  /\ ValidateSecret(x, testSecretName, NewConfig("", "")).condition.Status
                       = ConditionTrue },
      t \in { x \in {settledTLSSpec} :
                ValidateTLSConfig(x, NewConfig("", "")).condition.Status = ConditionTrue },
      p \in {TLS, StartTLS} }

Settle ==
  /\ pc \in {"idle", "done"}
  /\ ~env.stable
  /\ env' \in GoodEnvs
  /\ UNCHANGED <<variant, cache, pc, passVars, setLog, lastSet, got, calls, fault,
                 failedKeys, firstPass, heap, handed, cachedValue, status,
                 identityVars>>

StartLivePass ==
  /\ pc \in {"idle", "done"}
  /\ \E up \in LiveUpstreams :
       /\ env.stable => up = env.upstream
       /\ ResetPass(up)
  /\ UNCHANGED <<variant, cache, cacheCallVars>>

LiveValidateSecret ==
  /\ DoValidateSecret
  /\ env.stable => secret' = env.secret

LiveValidateTLSConfig ==
  /\ DoValidateTLSConfig
  /\ env.stable => tlsSpec' = env.tlsSpec

LiveTLSAttempt ==
  /\ DoTLSAttempt
  /\ env.stable => (net'[Len(net')].err = NilErr <=> env.accepts = TLS)

LiveStartTLSAttempt ==
  /\ DoStartTLSAttempt
  /\ env.stable => net'[Len(net')].err = NilErr

LiveDetectSearchBase ==
  /\ DoDetectSearchBase
  /\ env.stable => net'[Len(net')].err = NilErr

NextLive ==
  \/ Settle
  \/ StartLivePass
  \/ LiveValidateSecret
  \/ LiveValidateTLSConfig
  \/ DoCacheGet
  \/ LiveTLSAttempt
  \/ LiveStartTLSAttempt
  \/ LiveDetectSearchBase
  \/ DoCacheSet
  \/ DoAppend
  \/ DoEvaluate

SpecLive == Init /\ [][NextLive]_vars /\ WF_vars(NextLive)

(***************************************************************************)
(* The cache on its own: Set and Get called with any arguments, as the     *)
(* cache's interface allows.  MaxSets bounds the number of distinct        *)
(* (name, version, generation) triples that are Set.                       *)
(***************************************************************************)
SampleSettings ==
  { ValidatedSettings(g, v, p, testUserSearchBase, testGroupSearchBase,
                      ConnectionCondition(NewConfig("", ""), testSecretName, v, NilErr),
                      NilCondition) :
      g \in Generations, v \in SecretVersions(testSecretName), p \in {TLS, StartTLS} }

InitCache ==
  /\ variant = LDAPVariant
  /\ cache = NewValidatedSettingsCache
  /\ pc = "cache"
  /\ IdlePass
  /\ IdleCacheCalls

CallSet ==
  /\ pc = "cache"
  /\ \E n \in Names, settings \in SampleSettings :
       LET key == <<n, settings.BindSecretResourceVersion, settings.IDPSpecGeneration>>
       IN /\ key \in setLog \/ Cardinality(setLog) < MaxSets
          /\ cache' = Set(cache, n, settings)
          /\ setLog' = setLog \cup {key}
          /\ lastSet' = [m \in DOMAIN lastSet \cup {n} |->
                           IF m = n THEN settings ELSE lastSet[m]]
  /\ got' = NoGet
  /\ UNCHANGED <<variant, pc, passVars, calls, fault, failedKeys, observerVars>>

CallGet ==
  /\ pc = "cache"
  /\ \E n \in Names, v \in SecretVersions(testSecretName), g \in Generations :
       LET r == Get(cache, n, v, g)
       IN got' = [called |-> TRUE, name |-> n, version |-> v, generation |-> g,
                  settings |-> r.settings, found |-> r.found]
  /\ UNCHANGED <<variant, cache, pc, passVars, setLog, lastSet, calls, fault, failedKeys, observerVars>>

NextCache == CallSet \/ CallGet

SpecCache == InitCache /\ [][NextCache]_vars

(***************************************************************************)
(* The cache called from several goroutines.  Get and Set take no lock, so *)
(* a call is two steps, entering the method and leaving it, and the calls  *)
(* of different goroutines interleave.  ValidatedSettingsByName is a Go    *)
(* map: a write that overlaps another access to the map is a data race,    *)
(* after which the runtime may throw a fatal error, the write may be lost  *)
(* and the read may miss the entry, or the accesses may go through as if   *)
(* they were done one after the other.                                     *)
(***************************************************************************)
InitConcurrent ==
  /\ variant = LDAPVariant
  /\ cache = NewValidatedSettingsCache
  /\ pc = "concurrent"
  /\ IdlePass
  /\ IdleCacheCalls

\* the generations and secret versions an upstream goes through, and the
\* settings its passes validate
GenerationsOf(name) == IF name = "idp1" THEN Generations ELSE {1}
VersionsOf(name) ==
  SecretVersions(IF name = "idp1" THEN testSecretName ELSE otherSecretName)
SettingsOf(name) ==
  { ValidatedSettings(g, v, p, testUserSearchBase, testGroupSearchBase,
                      ConnectionCondition(NewConfig("", ""), testSecretName, v, NilErr),
                      NilCondition) :
      g \in GenerationsOf(name), v \in VersionsOf(name), p \in {TLS, StartTLS} }

InFlight(g) == calls[g].op # ""
Writing(g) == calls[g].op = "Set"

\* the calls after goroutine g entered with call c, conflicting with those of
\* the goroutines in others
Entered(g, c, others) ==
  [h \in Goroutines |->
     IF h = g THEN [c EXCEPT !.raced = (others # {})]
     ELSE IF h \in others THEN [calls[h] EXCEPT !.raced = TRUE]
     ELSE calls[h]]

\* a goroutine enters Set: the map write of Set conflicts with every access
\* in progress
BeginSet(g) ==
  /\ pc = "concurrent" /\ fault = NoFault
  /\ ~InFlight(g)
  /\ \E settings \in SettingsOf(UpstreamOf(g)) :
       calls' = Entered(g, Call("Set", UpstreamOf(g), settings.BindSecretResourceVersion,
                                settings.IDPSpecGeneration, settings, FALSE),
                        {h \in Goroutines \ {g} : InFlight(h)})
  /\ UNCHANGED <<variant, cache, pc, passVars, setLog, lastSet, got, fault, failedKeys, observerVars>>

\* a goroutine enters Get: the map read of Get conflicts with every write in
\* progress
BeginGet(g) ==
  /\ pc = "concurrent" /\ fault = NoFault
  /\ ~InFlight(g)
  /\ \E v \in VersionsOf(UpstreamOf(g)), gen \in GenerationsOf(UpstreamOf(g)) :
       calls' = Entered(g, Call("Get", UpstreamOf(g), v, gen, ZeroSettings, FALSE),
                        {h \in Goroutines \ {g} : Writing(h)})
  /\ UNCHANGED <<variant, cache, pc, passVars, setLog, lastSet, got, fault, failedKeys, observerVars>>

\* Set returns: the entry is stored, unless the write raced and was lost
EndSet(g) ==
  /\ pc = "concurrent" /\ fault = NoFault
  /\ Writing(g)
  /\ cache' \in {Set(cache, calls[g].name, calls[g].settings)}
                \cup (IF calls[g].raced THEN {cache} ELSE {})
  /\ calls' = [calls EXCEPT ![g] = NoCall]
  /\ UNCHANGED <<variant, pc, passVars, setLog, lastSet, got, fault, failedKeys, observerVars>>

\* Get returns what it read, unless the read raced and missed the entry
EndGet(g) ==
  /\ pc = "concurrent" /\ fault = NoFault
  /\ calls[g].op = "Get"
  /\ \E r \in {Get(cache, calls[g].name, calls[g].version, calls[g].generation)}
              \cup (IF calls[g].raced
                    THEN {[settings |-> ZeroSettings, found |-> FALSE]} ELSE {}) :
       got' = [called |-> TRUE, name |-> calls[g].name, version |-> calls[g].version,
               generation |-> calls[g].generation,
               settings |-> r.settings, found |-> r.found]
  /\ calls' = [calls EXCEPT ![g] = NoCall]
  /\ UNCHANGED <<variant, cache, pc, passVars, setLog, lastSet, fault, failedKeys, observerVars>>

\* the runtime notices a write to the map overlapping another access and
\* ends the process
RuntimeThrow ==
  /\ pc = "concurrent" /\ fault = NoFault
  /\ \E g \in Goroutines : InFlight(g) /\ calls[g].raced
  /\ fault' = IF \A g \in Goroutines : Writing(g)
              THEN "fatal error: concurrent map writes"
              ELSE "fatal error: concurrent map read and map write"
  /\ UNCHANGED <<variant, cache, pc, passVars, setLog, lastSet, got, calls, failedKeys, observerVars>>

NextConcurrent ==
  \/ \E g \in Goroutines : BeginSet(g)
  \/ \E g \in Goroutines : BeginGet(g)
  \/ \E g \in Goroutines : EndSet(g)
  \/ \E g \in Goroutines : EndGet(g)
  \/ RuntimeThrow

SpecConcurrent == InitConcurrent /\ [][NextConcurrent]_vars

(***************************************************************************)
(* Two passes for the same upstream name running in parallel.  Both call   *)
(* Set for the one key; the assignment of line 98 copies the struct word   *)
(* by word into the map's slot without a lock, so that of two overlapping  *)
(* assignments the slot may end up with the leading fields of one struct   *)
(* and the trailing fields of the other.                                   *)
(***************************************************************************)
InitSameName ==
  /\ variant = LDAPVariant
  /\ cache = NewValidatedSettingsCache
  /\ pc = "sameName"
  /\ IdlePass
  /\ IdleCacheCalls

\* the fields of ValidatedSettings in the order of the struct
SettingsFields ==
  <<"IDPSpecGeneration", "BindSecretResourceVersion", "LDAPConnectionProtocol",
    "UserSearchBase", "GroupSearchBase", "ConnectionValidCondition",
    "SearchBaseFoundCondition">>

\* the first k fields of a followed by the remaining fields of b
Spliced(a, b, k) ==
  [f \in DOMAIN a |->
     IF \E i \in 1..k : SettingsFields[i] = f THEN a[f] ELSE b[f]]

\* what the slot may hold after the copies of a and of b overlapped
TornWrites(a, b) ==
  { Spliced(a, b, k) : k \in 0..Len(SettingsFields) }
  \cup { Spliced(b, a, k) : k \in 0..Len(SettingsFields) }

BeginSetSameName(g) ==
  /\ pc = "sameName" /\ fault = NoFault
  /\ ~InFlight(g)
  /\ \E settings \in SettingsOf("idp1") :
       calls' = Entered(g, Call("Set", "idp1", settings.BindSecretResourceVersion,
                                settings.IDPSpecGeneration, settings, FALSE),
                        {h \in Goroutines \ {g} : InFlight(h)})
  /\ UNCHANGED <<variant, cache, pc, passVars, setLog, lastSet, got, fault, failedKeys,
                 observerVars>>

\* Set returns: the entry is stored; a write that overlapped another one may
\* be lost or may leave a splice of the two structs in the slot
EndSetSameName(g) ==
  /\ pc = "sameName" /\ fault = NoFault
  /\ Writing(g)
  /\ LET others == { calls[h].settings : h \in {h \in Goroutines \ {g} : Writing(h)} }
                   \cup (IF calls[g].name \in DOMAIN cache
                         THEN {cache[calls[g].name]} ELSE {})
     IN cache' \in
          {Set(cache, calls[g].name, calls[g].settings)}
          \cup (IF calls[g].raced
                THEN {cache}
                     \cup { Set(cache, calls[g].name, m) :
                              m \in UNION { TornWrites(calls[g].settings, o) : o \in others } }
                ELSE {})
  /\ calls' = [calls EXCEPT ![g] = NoCall]
  /\ UNCHANGED <<variant, pc, passVars, setLog, lastSet, got, fault, failedKeys,
                 observerVars>>

\* the runtime notices the overlapping writes and ends the process
RuntimeThrowSameName ==
  /\ pc = "sameName" /\ fault = NoFault
  /\ \E g \in Goroutines : Writing(g) /\ calls[g].raced
  /\ fault' = "fatal error: concurrent map writes"
  /\ UNCHANGED <<variant, cache, pc, passVars, setLog, lastSet, got, calls, failedKeys,
                 observerVars>>

NextSameName ==
  \/ \E g \in Goroutines : BeginSetSameName(g)
  \/ \E g \in Goroutines : EndSetSameName(g)
  \/ RuntimeThrowSameName

SpecSameName == InitSameName /\ [][NextSameName]_vars

(***************************************************************************)
(* EvaluateConditions on its own: any list of up to MaxListLen gradated    *)
(* conditions, each true, false or unknown and fatal or not.               *)
(***************************************************************************)
SampleGradatedConditions ==
  { gradatedCondition(Condition(IF f THEN typeBindSecretValid ELSE typeLDAPConnectionValid,
                                st, "", PlainMessage("")), f) :
      st \in {ConditionTrue, ConditionFalse, ConditionUnknown}, f \in BOOLEAN }

SampleLists == UNION { [1..k -> SampleGradatedConditions] : k \in 0..MaxListLen }

InitEval ==
  /\ variant = LDAPVariant
  /\ cache = NewValidatedSettingsCache
  /\ pc = "Returned"
  /\ upstream = NoUpstream
  /\ secret = NoSecret
  /\ tlsSpec = NoTLSSpec
  /\ config \in {BeforeTLSAttempt(NewConfig(testUserSearchBase, testGroupSearchBase))}
  /\ currentSecretVersion = EmptyVersion
  /\ conditions \in SampleLists
  /\ ldapConnectionValidCondition = NilCondition
  /\ searchBaseFoundCondition = NilCondition
  /\ err = NilErr
  /\ path = ""
  /\ net = <<>>
  /\ cacheOps = <<>>
  /\ startCache = NewValidatedSettingsCache
  /\ result = NoResult
  /\ IdleCacheCalls

NextEval == DoEvaluate

SpecEval == InitEval /\ [][NextEval]_vars


(***************************************************************************)
(* Properties.                                                             *)
(***************************************************************************)
\* the key a Get call was made with
GotKey == <<got.name, got.version, got.generation>>

\* C1 as stated: Get returns a hit iff its three arguments match a prior Set
\* exactly (any Set made before the call), and a miss returns the empty
\* settings.
C1_HitIffSomePriorSet ==
  got.called =>
    /\ got.found <=> GotKey \in setLog
    /\ ~got.found => got.settings = ZeroSettings

\* C1 as amended: Get returns a hit iff its three arguments match the most
\* recent Set made for that name (the stored entry); a hit returns the settings
\* of that Set, and if any one of the three differs Get returns the empty
\* settings and false.
C1_HitIffLatestSet ==
  got.called =>
    LET stored == got.name \in DOMAIN lastSet
        matches == /\ stored
                   /\ lastSet[got.name].BindSecretResourceVersion = got.version
                   /\ lastSet[got.name].IDPSpecGeneration = got.generation
    IN /\ got.found <=> matches
       /\ got.found => got.settings = lastSet[got.name]
       /\ ~got.found => got.settings = ZeroSettings

\* a Get that hits the entry of a name which was Set more than once, and a
\* Get that misses because only the generation differs from the stored entry
C1_Witness ==
  /\ got.called
  /\ got.name \in DOMAIN lastSet
  /\ \E k \in setLog : k[1] = got.name /\ k # GotKey
  /\ \/ got.found
     \/ /\ ~got.found
        /\ lastSet[got.name].BindSecretResourceVersion = got.version
        /\ lastSet[got.name].IDPSpecGeneration # got.generation


\* both validators of the running pass returned a true condition
ValidatorsPassed ==
  /\ Len(conditions) >= 2
  /\ conditions[1].condition.Status = ConditionTrue
  /\ conditions[2].condition.Status = ConditionTrue

\* the pass is past the cache lookup of validateAndSet...
AfterLookup ==
  /\ pc \in {"TLS", "StartTLS", "DetectSearchBase", "Set", "Append", "Returned", "done"}
  /\ ValidatorsPassed

\* validateAndSet... has computed both of its results
AfterProbe == pc \in {"Append", "Returned", "done"} /\ ValidatorsPassed

\* when the pass started the cache held an entry for the upstream's name
\* with the upstream's generation and the current secret version
StartEntryMatches ==
  /\ upstream.name \in DOMAIN startCache
  /\ startCache[upstream.name].IDPSpecGeneration = upstream.generation
  /\ startCache[upstream.name].BindSecretResourceVersion = currentSecretVersion

StartEntryComplete ==
  /\ startCache[upstream.name].UserSearchBase # ""
  /\ startCache[upstream.name].GroupSearchBase # ""

\* the two results of validateAndSet... show no failure
ResultsShowNoFailure ==
  /\ ldapConnectionValidCondition.Status = ConditionTrue
  /\ \/ searchBaseFoundCondition = NilCondition
     \/ searchBaseFoundCondition.Status = ConditionTrue

\* the settings this pass has validated
PassEntry ==
  [IDPSpecGeneration |-> upstream.generation,
   BindSecretResourceVersion |-> currentSecretVersion,
   LDAPConnectionProtocol |-> config.ConnectionProtocol,
   UserSearchBase |-> config.UserSearchBase,
   GroupSearchBase |-> config.GroupSearchBase,
   ConnectionValidCondition |-> ldapConnectionValidCondition,
   SearchBaseFoundCondition |-> searchBaseFoundCondition]

\* the network operations of a complete probe: TLS, StartTLS only after a
\* failed TLS attempt, then the search-base resolver
ProbedOnce ==
  /\ Len(net) \in {2, 3}
  /\ net[1].op = TLS
  /\ net[Len(net)].op = DetectOp
  /\ Len(net) = 2 => net[1].err = NilErr
  /\ Len(net) = 3 => net[1].err # NilErr /\ net[2].op = StartTLS

\* C2: when secret and TLS validation pass and the cache holds an entry
\* matching (name, secretVersion, generation) with both search bases
\* non-empty, the pass makes no network access, the config gets the cached
\* protocol and search bases, and the connection-valid and search-base-found
\* conditions returned (and appended to the list) equal the cached ones.
C2_CacheHitSkipsNetwork ==
  (AfterLookup /\ StartEntryMatches /\ StartEntryComplete) =>
    LET e == startCache[upstream.name]
    IN /\ pc \in {"Append", "Returned", "done"}
       /\ net = <<>>
       /\ config.ConnectionProtocol = e.LDAPConnectionProtocol
       /\ config.UserSearchBase = e.UserSearchBase
       /\ config.GroupSearchBase = e.GroupSearchBase
       /\ ldapConnectionValidCondition = e.ConnectionValidCondition
       /\ searchBaseFoundCondition = e.SearchBaseFoundCondition
       /\ pc \in {"Returned", "done"} =>
            /\ conditions[3].condition = e.ConnectionValidCondition
            /\ IF e.SearchBaseFoundCondition = NilCondition
               THEN Len(conditions) = 3
               ELSE Len(conditions) = 4
                    /\ conditions[4].condition = e.SearchBaseFoundCondition

\* a finished pass that reused an entry cached with StartTLS and with a
\* search-base condition
C2_Witness ==
  /\ pc = "done"
  /\ ValidatorsPassed /\ StartEntryMatches /\ StartEntryComplete
  /\ startCache[upstream.name].LDAPConnectionProtocol = StartTLS
  /\ startCache[upstream.name].SearchBaseFoundCondition # NilCondition
  /\ net = <<>>

\* C3: a cache entry whose user or group search base is empty is never used,
\* even when name, generation and secret version all match: the pass runs
\* the connection probe and the search-base resolver as on a miss, and on
\* success overwrites the entry with the settings of this pass.
C3_IncompleteEntryForcesProbe ==
  (AfterLookup /\ StartEntryMatches /\ ~StartEntryComplete) =>
    /\ path = "probe"
    /\ pc # "TLS" => Len(net) >= 1 /\ net[1].op = TLS
    /\ pc \in {"Set", "Append", "Returned", "done"} => ProbedOnce
    /\ (pc \in {"Append", "Returned", "done"} /\ ResultsShowNoFailure) =>
         /\ cacheOps = <<"Get", "Set">>
         /\ cache[upstream.name] = PassEntry

\* a finished pass that found a matching entry with an empty search base,
\* probed with success and wrote the cache
C3_Witness ==
  /\ pc = "done"
  /\ ValidatorsPassed /\ StartEntryMatches /\ ~StartEntryComplete
  /\ ProbedOnce
  /\ cacheOps = <<"Get", "Set">>

\* C4: on the probing path the cache is written iff the connection-valid
\* condition is true and the search-base condition is nil or true; the entry
\* is stored under the upstream's name and holds the upstream's generation,
\* the current secret version, the protocol the probe left in the config, the
\* config's final search bases and copies of both conditions; the entries of
\* the other names stay as they were.
C4_CacheWrittenIffNoFailures ==
  (AfterProbe /\ path = "probe") =>
    /\ (cacheOps = <<"Get", "Set">>) <=> ResultsShowNoFailure
    /\ ResultsShowNoFailure =>
         cache = [n \in DOMAIN startCache \cup {upstream.name} |->
                    IF n = upstream.name THEN PassEntry ELSE startCache[n]]

\* a pass that fell back to StartTLS, discovered a search base and cached it
C4_Witness ==
  /\ pc = "done" /\ path = "probe"
  /\ cacheOps = <<"Get", "Set">>
  /\ cache[upstream.name].LDAPConnectionProtocol = StartTLS
  /\ cache[upstream.name].UserSearchBase = exampleDefaultNamingContext
  /\ cache[upstream.name].SearchBaseFoundCondition.Status = ConditionTrue

\* C5: after a probing pass in which the connection-valid condition is not
\* true or the search-base condition is false, the whole cache is what it was
\* when the pass started: no entry was added and an entry already stored
\* under the upstream's name is unmodified.
C5_FailedProbeLeavesCache ==
  (AfterProbe /\ path = "probe" /\ ~ResultsShowNoFailure) => cache = startCache

\* a finished pass whose probe failed while the cache held an entry of an
\* older generation for the same name
C5_Witness ==
  /\ pc = "done" /\ path = "probe"
  /\ ldapConnectionValidCondition.Status = ConditionFalse
  /\ upstream.name \in DOMAIN cache
  /\ cache[upstream.name].IDPSpecGeneration < upstream.generation

\* the pass made both connection attempts
BothAttempted ==
  /\ Len(net) >= 2
  /\ net[1].op = TLS /\ net[1].err # NilErr
  /\ net[2].op = StartTLS

\* C6: when the TLS attempt fails and the StartTLS attempt succeeds, then
\* once TestConnection has returned the config's ConnectionProtocol is
\* StartTLS and the LDAPConnectionValid condition is true with reason Success.
C6_FallbackToStartTLS ==
  (BothAttempted /\ net[2].err = NilErr) =>
    /\ config.ConnectionProtocol = StartTLS
    /\ ldapConnectionValidCondition.Type = typeLDAPConnectionValid
    /\ ldapConnectionValidCondition.Status = ConditionTrue
    /\ ldapConnectionValidCondition.Reason = ReasonSuccess

\* TestConnection has just returned from a successful fallback
C6_Witness ==
  /\ pc = "DetectSearchBase"
  /\ BothAttempted /\ net[2].err = NilErr
  /\ config.ConnectionProtocol = StartTLS

\* C7: when both the TLS and the StartTLS attempt fail, then once
\* TestConnection has returned the config's ConnectionProtocol is TLS and the
\* LDAPConnectionValid condition is false with reason LDAPConnectionError and
\* a message carrying the error of the TLS attempt, not that of the StartTLS
\* attempt.
C7_DoubleFailureKeepsTLS ==
  (BothAttempted /\ net[2].err # NilErr) =>
    /\ config.ConnectionProtocol = TLS
    /\ ldapConnectionValidCondition.Type = typeLDAPConnectionValid
    /\ ldapConnectionValidCondition.Status = ConditionFalse
    /\ ldapConnectionValidCondition.Reason = reasonLDAPConnectionError
    /\ ldapConnectionValidCondition.Message.err = net[1].err
    /\ ldapConnectionValidCondition.Message.err # net[2].err

\* TestConnection has just returned from two failed attempts
C7_Witness ==
  /\ pc = "DetectSearchBase"
  /\ BothAttempted /\ net[2].err # NilErr
  /\ config.ConnectionProtocol = TLS


\* the order in which ValidateGenericLDAP appends its conditions
ConditionOrder ==
  <<typeBindSecretValid, typeTLSConfigurationValid, typeLDAPConnectionValid,
    TypeSearchBaseFound>>

\* C8: in a pass where secret validation or TLS validation returns a
\* condition that is not true, no connection probe and no search-base
\* resolution is attempted, the settings cache is neither read nor written,
\* and the list holds exactly [BindSecretValid, TLSConfigurationValid]; the
\* TLS validator still runs when the secret validator failed.
C8_FatalShortCircuit ==
  /\ (pc \notin {"idle", "cache"} /\ Len(conditions) = 1
        /\ conditions[1].condition.Status # ConditionTrue) =>
       pc = "ValidateTLSConfig"
  /\ (pc \notin {"idle", "cache"} /\ Len(conditions) >= 2 /\ ~ValidatorsPassed) =>
       /\ pc \in {"Returned", "done"}
       /\ net = <<>>
       /\ cacheOps = <<>>
       /\ cache = startCache
       /\ Len(conditions) = 2
       /\ conditions[1].condition.Type = typeBindSecretValid
       /\ conditions[2].condition.Type = typeTLSConfigurationValid

\* a finished pass with a valid secret and malformed CA data, for an upstream
\* whose settings are in the cache
C8_Witness ==
  /\ pc = "done"
  /\ Len(conditions) = 2
  /\ conditions[1].condition.Status = ConditionTrue
  /\ conditions[2].condition.Reason = ReasonInvalidTLSConfig
  /\ StartEntryMatches /\ StartEntryComplete

\* the list as far as it has been built has the shape of C9
C9Shape ==
  /\ Len(conditions) <= 4
  /\ \A i \in 1..Len(conditions) :
       /\ conditions[i].condition.Type = ConditionOrder[i]
       /\ conditions[i].isFatal = (i # 3)
  /\ Len(conditions) >= 3 => ValidatorsPassed
  /\ pc \in {"Returned", "done"} =>
       /\ Len(conditions) >= 2
       /\ Len(conditions) >= 3 <=> ValidatorsPassed
       /\ Len(conditions) = 4 <=>
            (ValidatorsPassed /\ searchBaseFoundCondition # NilCondition)

\* the list before a step is the beginning of the list after it
ConditionsOnlyGrow ==
  /\ Len(conditions) <= Len(conditions')
  /\ \A i \in 1..Len(conditions) : conditions'[i] = conditions[i]

\* C9: the list of ValidateGenericLDAP is always in the order
\* BindSecretValid, TLSConfigurationValid, then (only if both are true)
\* LDAPConnectionValid, then (only if the search-base condition is not nil)
\* SearchBaseFound, with at most one condition per type; all are fatal but
\* LDAPConnectionValid; and within a pass a step never reorders, removes or
\* changes (fatal flag included) the conditions appended before it.
C9_OrderedGradatedList ==
  [][ /\ C9Shape'
      /\ pc' # "ValidateSecret" => ConditionsOnlyGrow ]_vars

\* a returned list with all four conditions
C9_Witness ==
  /\ pc = "Returned"
  /\ Len(conditions) = 4
  /\ conditions[3].condition.Status = ConditionFalse
  /\ conditions[4].condition.Type = TypeSearchBaseFound

\* some fatal condition of the list is not true
SomeFatalNotTrue ==
  \E i \in 1..Len(conditions) :
    conditions[i].isFatal /\ conditions[i].condition.Status # ConditionTrue

\* C10: EvaluateConditions returns no provider together with retry = true
\* iff at least one fatal condition of the list is not true, wherever it is
\* in the list and whether or not non-fatal conditions are not true as well.
C10_FatalFailureWithholds ==
  pc = "done" =>
    ((result.provider = NilProvider /\ result.requeue) <=> SomeFatalNotTrue)

\* a list in which a non-fatal failure comes before a fatal one
C10_Witness ==
  /\ pc = "done"
  /\ Len(conditions) >= 2
  /\ ~conditions[1].isFatal /\ conditions[1].condition.Status = ConditionFalse
  /\ conditions[Len(conditions)].isFatal
  /\ conditions[Len(conditions)].condition.Status = ConditionUnknown
  /\ result.provider = NilProvider

\* some condition of the list that is not fatal is not true
SomeNonFatalNotTrue ==
  \E i \in 1..Len(conditions) :
    ~conditions[i].isFatal /\ conditions[i].condition.Status # ConditionTrue

\* every condition of the list is true
AllConditionsTrue ==
  \A i \in 1..Len(conditions) : conditions[i].condition.Status = ConditionTrue

\* C11: EvaluateConditions returns retry = false iff every condition of the
\* list is true; when all fatal conditions are true and some non-fatal one is
\* not, it returns a provider built from the config together with retry =
\* true; when all conditions are true it returns a provider built from the
\* config together with retry = false.
C11_PublicationTiers ==
  pc = "done" =>
    /\ ~result.requeue <=> AllConditionsTrue
    /\ (~SomeFatalNotTrue /\ SomeNonFatalNotTrue) =>
         result = [provider |-> New(config), requeue |-> TRUE]
    /\ AllConditionsTrue =>
         result = [provider |-> New(config), requeue |-> FALSE]

\* a list whose fatal conditions are all true and whose last condition is a
\* non-fatal failure, published with a retry
C11_Witness ==
  /\ pc = "done"
  /\ Len(conditions) >= 3
  /\ conditions[1].isFatal
  /\ ~SomeFatalNotTrue
  /\ ~conditions[Len(conditions)].isFatal
  /\ conditions[Len(conditions)].condition.Status = ConditionFalse
  /\ result.provider = New(config)
  /\ result.requeue

\* C12: in a finished pass with valid secret and TLS configuration in which
\* both connection attempts failed and the search-base condition is nil or
\* true, a provider is published with retry = true, the published config's
\* ConnectionProtocol is TLS, the LDAPConnectionValid condition is false, and
\* nothing was written to the settings cache.
C12_ConnectionFailureStillPublishes ==
  (/\ pc = "done" /\ ValidatorsPassed
   /\ BothAttempted /\ net[2].err # NilErr
   /\ \/ searchBaseFoundCondition = NilCondition
      \/ searchBaseFoundCondition.Status = ConditionTrue) =>
    /\ result.provider # NilProvider
    /\ result.provider = New(config)
    /\ result.requeue
    /\ result.provider.config.ConnectionProtocol = TLS
    /\ conditions[3].condition.Type = typeLDAPConnectionValid
    /\ conditions[3].condition.Status = ConditionFalse
    /\ cacheOps = <<"Get">>
    /\ cache = startCache

\* a finished pass in which both dials failed while the query for the default
\* naming context succeeded
C12_Witness ==
  /\ pc = "done" /\ ValidatorsPassed
  /\ BothAttempted /\ net[2].err # NilErr
  /\ searchBaseFoundCondition.Status = ConditionTrue
  /\ searchBaseFoundCondition.Reason = ReasonSuccess
  /\ result.provider # NilProvider
  /\ result.requeue

\* C13: in a finished pass whose search-base resolver returned a false
\* SearchBaseFound condition (the query failed, or did not give exactly one
\* entry), no provider is published and retry = true, also when the
\* connection probe succeeded and LDAPConnectionValid is true; and the
\* settings cache was not written.
C13_SearchBaseFailureWithholds ==
  (/\ pc = "done" /\ ValidatorsPassed /\ path = "probe"
   /\ searchBaseFoundCondition # NilCondition
   /\ searchBaseFoundCondition.Status = ConditionFalse) =>
    /\ result = [provider |-> NilProvider, requeue |-> TRUE]
    /\ conditions[4].condition = searchBaseFoundCondition
    /\ conditions[4].isFatal
    /\ cacheOps = <<"Get">>
    /\ cache = startCache

\* a finished pass whose connection probe succeeded over TLS and whose query
\* for the default naming context found no entry
C13_Witness ==
  /\ pc = "done" /\ path = "probe"
  /\ ldapConnectionValidCondition.Status = ConditionTrue
  /\ searchBaseFoundCondition.Reason = ReasonErrorFetchingSearchBase
  /\ net[Len(net)] = NetOp(DetectOp, "expected to find 1 entry but found 0")
  /\ result.provider = NilProvider
  /\ result.requeue

\* ValidateSecret of the running pass has returned
SecretValidated == pc \notin {"idle", "cache", "ValidateSecret"} /\ Len(conditions) >= 1

\* C14: ValidateSecret maps the looked-up secret to exactly one outcome.
\* A lookup error gives BindSecretValid false with reason SecretNotFound and
\* the empty resource version; a secret that is not of basic-auth type gives
\* false with SecretWrongType and the secret's resource version; a basic-auth
\* secret with an empty username or password gives false with
\* SecretMissingKeys and the secret's resource version; any other secret
\* gives true with Success, "loaded bind secret" and the secret's resource
\* version.  The config's bind username and password are unchanged in the
\* first two outcomes and are those of the secret in the last two.
C14_ValidateSecretOutcomes ==
  SecretValidated =>
    LET c == conditions[1].condition
        fresh == NewConfig(upstream.userBase, upstream.groupBase)
        outcome ==
          IF secret.err # NilErr THEN ReasonNotFound
          ELSE IF secret.Type # LDAPBindAccountSecretType THEN ReasonWrongType
          ELSE IF secret.username = "" \/ secret.password = "" THEN ReasonMissingKeys
          ELSE ReasonSuccess
    IN /\ c.Type = typeBindSecretValid
       /\ c.Reason = outcome
       /\ c.Status = IF outcome = ReasonSuccess THEN ConditionTrue ELSE ConditionFalse
       /\ outcome = ReasonSuccess => c.Message = PlainMessage("loaded bind secret")
       /\ currentSecretVersion =
            IF outcome = ReasonNotFound THEN EmptyVersion ELSE secret.ResourceVersion
       /\ outcome \in {ReasonNotFound, ReasonWrongType} =>
            /\ config.BindUsername = fresh.BindUsername
            /\ config.BindPassword = fresh.BindPassword
       /\ outcome \in {ReasonMissingKeys, ReasonSuccess} =>
            /\ config.BindUsername = secret.username
            /\ config.BindPassword = secret.password

\* ValidateSecret has returned for a basic-auth secret without a password:
\* the username of the secret is in the config
C14_Witness ==
  /\ pc = "ValidateTLSConfig"
  /\ secret.err = NilErr
  /\ secret.password = ""
  /\ conditions[1].condition.Reason = ReasonMissingKeys
  /\ currentSecretVersion = "4242"
  /\ config.BindUsername = testBindUsername

\* ValidateTLSConfig of the running pass has returned
TLSValidated == pc \notin {"idle", "cache", "ValidateSecret"} /\ Len(conditions) >= 2

\* C15: ValidateTLSConfig gives, for a nil TLS spec, true/Success "no TLS
\* configuration provided"; for a spec with empty CA data, true/Success
\* "loaded TLS configuration"; for CA data that is not base64,
\* false/InvalidTLSConfig; for base64 of bytes without a certificate,
\* false/InvalidTLSConfig "no certificates found"; otherwise true/Success
\* "loaded TLS configuration".  The config's CA bundle is set (to the decoded
\* bytes) only in the last case and is untouched in the four others.
C15_ValidateTLSConfigOutcomes ==
  TLSValidated =>
    LET c == conditions[2].condition
        data == tlsSpec.CertificateAuthorityData
        case == IF tlsSpec.isNil THEN "nil"
                ELSE IF data = "" THEN "empty"
                ELSE IF DecodeString(data).err # NilErr THEN "malformed"
                ELSE IF ~AppendCertsFromPEM(DecodeString(data).bytes) THEN "nocert"
                ELSE "loaded"
    IN /\ c.Type = typeTLSConfigurationValid
       /\ case = "nil" =>
            c = Condition(typeTLSConfigurationValid, ConditionTrue, ReasonSuccess,
                          PlainMessage(noTLSConfigurationMessage))
       /\ case \in {"empty", "loaded"} =>
            c = Condition(typeTLSConfigurationValid, ConditionTrue, ReasonSuccess,
                          PlainMessage(loadedTLSConfigurationMessage))
       /\ case \in {"malformed", "nocert"} =>
            /\ c.Status = ConditionFalse
            /\ c.Reason = ReasonInvalidTLSConfig
       /\ case = "nocert" => c.Message.err = ErrNoCertificates
       /\ case = "malformed" => c.Message.err # ErrNoCertificates
       /\ config.CABundle = IF case = "loaded" THEN DecodeString(data).bytes ELSE NilBundle

\* ValidateTLSConfig has returned for CA data that decodes to bytes holding no
\* certificate
C15_Witness ==
  /\ pc = "Returned"
  /\ tlsSpec = TLSSpec(noCertCAData)
  /\ conditions[2].condition.Message.err = ErrNoCertificates
  /\ config.CABundle = NilBundle

\* C16 as stated: Get and Set are safe under concurrent access from
\* validation passes of several upstreams running in parallel: no write to
\* the underlying map overlaps another access to it, and the runtime never
\* ends the process for one, so that the calls behave as if made one after
\* the other.
C16_ConcurrentCallsAreSerial ==
  pc = "concurrent" =>
    /\ fault = NoFault
    /\ \A g \in Goroutines : ~calls[g].raced

\* C17: when the cache holds an entry for the upstream's name and the bind
\* secret's resource version or the upstream's generation differs from the
\* entry's, the pass probes the server again; on success the entry is
\* replaced by one with the new generation and secret version, which then
\* hits, while the old (generation, secret version) no longer hits.
C17_ChangedKeyReprobes ==
  (AfterLookup /\ upstream.name \in DOMAIN startCache /\ ~StartEntryMatches) =>
    /\ path = "probe"
    /\ pc # "TLS" => Len(net) >= 1 /\ net[1].op = TLS
    /\ pc \in {"Set", "Append", "Returned", "done"} => ProbedOnce
    /\ (AfterProbe /\ ResultsShowNoFailure) =>
         LET old == startCache[upstream.name]
         IN /\ cacheOps = <<"Get", "Set">>
            /\ cache[upstream.name].IDPSpecGeneration = upstream.generation
            /\ cache[upstream.name].BindSecretResourceVersion = currentSecretVersion
            /\ Get(cache, upstream.name, currentSecretVersion, upstream.generation).found
            /\ ~Get(cache, upstream.name, old.BindSecretResourceVersion,
                    old.IDPSpecGeneration).found

\* a finished pass for an upstream whose bind secret changed since its entry
\* was cached: the entry now carries the new secret version
C17_Witness ==
  /\ pc = "done"
  /\ upstream.name \in DOMAIN startCache
  /\ startCache[upstream.name].IDPSpecGeneration = upstream.generation
  /\ startCache[upstream.name].BindSecretResourceVersion # currentSecretVersion
  /\ cacheOps = <<"Get", "Set">>
  /\ cache[upstream.name].BindSecretResourceVersion = currentSecretVersion

\* C18: Set(name, settings) overwrites the single entry stored under the
\* name whatever was stored before: after the step in which a pass calls Set
\* the entry of the upstream's name is the settings given, the names with an
\* entry are those of before and the upstream's name, and the entries of all
\* other names are unchanged.
C18_SetOverwritesOneEntry ==
  [][ (pc = "Set" /\ pc' = "Append") =>
        /\ DOMAIN cache' = DOMAIN cache \cup {upstream.name}
        /\ cache'[upstream.name] = PassEntry
        /\ \A m \in DOMAIN cache \ {upstream.name} : cache'[m] = cache[m] ]_vars

\* Set has just replaced an entry of the upstream by a different one while
\* the other upstream has an entry as well
C18_Witness ==
  /\ pc = "Append"
  /\ cacheOps = <<"Get", "Set">>
  /\ upstream.name \in DOMAIN startCache
  /\ startCache[upstream.name] # cache[upstream.name]
  /\ DOMAIN cache = Names

\* C19: a cache entry never expires and is never removed: in every step the
\* names with an entry keep having one, and the contents of an entry change
\* only in the Set of a probing pass for that name whose connection condition
\* is true and whose search-base condition is nil or true, which stores the
\* settings of that pass.
C19_EntriesNeverExpire ==
  [][ /\ DOMAIN cache \subseteq DOMAIN cache'
      /\ \A n \in DOMAIN cache :
           cache'[n] # cache[n] =>
             /\ n = upstream.name
             /\ pc = "Set" /\ path = "probe"
             /\ ValidatorsPassed /\ ProbedOnce /\ ResultsShowNoFailure
             /\ cache'[n] = PassEntry ]_vars

\* the entry of idp1 is still there, as it was, after a pass for idp2 that
\* wrote the cache
C19_Witness ==
  /\ pc = "done"
  /\ upstream.name = "idp2"
  /\ cacheOps = <<"Get", "Set">>
  /\ "idp1" \in DOMAIN startCache
  /\ "idp1" \in DOMAIN cache
  /\ cache["idp1"] = startCache["idp1"]

\* C20: when a probing pass with valid secret and TLS configuration ended
\* with a false connection condition or a false search-base condition, a
\* later pass for the same upstream with the same generation and secret
\* version, with no successful pass for the upstream in between, probes the
\* server again and reuses no cached result.
C20_FailedResultNotTrusted ==
  (AfterLookup /\ PassKey \in failedKeys) =>
    /\ path = "probe"
    /\ cacheOps[1] = "Get"
    /\ pc # "TLS" => Len(net) >= 1 /\ net[1].op = TLS
    /\ pc \in {"Set", "Append", "Returned", "done"} => ProbedOnce

\* the pass after a failed one found a matching entry with an empty search
\* base in the cache and is about to dial
C20_Witness ==
  /\ pc = "TLS"
  /\ PassKey \in failedKeys
  /\ StartEntryMatches
  /\ path = "probe"

\* a validation pass is under way
PassRunning ==
  pc \in {"ValidateSecret", "ValidateTLSConfig", "Get", "TLS", "StartTLS",
          "DetectSearchBase", "Set", "Append", "Returned"}

\* C21: all failures are captured as data.  Whatever the secret lister, the
\* TLS spec, the two dials and the resolver give, a pass that is under way
\* can take its next step, ValidateGenericLDAP returns a list of at least
\* two conditions none of which is nil (EvaluateConditions reads the status
\* of each), and EvaluateConditions returns nil or a provider of the config
\* together with a boolean: nothing ends a pass but its return.
C21_FailuresAreData ==
  /\ PassRunning => ENABLED Next
  /\ pc \in {"DetectSearchBase", "Set", "Append"} =>
       ldapConnectionValidCondition # NilCondition
  /\ (pc \in {"Returned", "done"} /\ upstream # NoUpstream) =>
       /\ Len(conditions) \in 2..4
       /\ \A i \in 1..Len(conditions) :
            /\ conditions[i].condition # NilCondition
            /\ conditions[i].condition.Status \in {ConditionTrue, ConditionFalse}
  /\ (pc = "done" /\ upstream # NoUpstream) =>
       /\ result.requeue \in BOOLEAN
       /\ result.provider \in {NilProvider, New(config)}

\* a finished pass in which both dials and the query for the search base
\* failed
C21_Witness ==
  /\ pc = "done"
  /\ Len(conditions) = 4
  /\ Len(net) = 3
  /\ conditions[3].condition.Status = ConditionFalse
  /\ conditions[4].condition.Status = ConditionFalse
  /\ result.provider = NilProvider
  /\ result.requeue

\* the network operations of the pass so far are in the order of a single
\* probe: the TLS attempt, the StartTLS attempt only after a failed TLS
\* attempt, the resolver only after TestConnection returned, none repeated
NetOrder ==
  /\ Len(net) <= 3
  /\ Len(net) >= 1 => net[1].op = TLS
  /\ \A i \in 2..Len(net) :
       /\ net[i].op # TLS
       /\ net[i].op = StartTLS => (i = 2 /\ net[1].err # NilErr)
       /\ net[i].op = DetectOp =>
            /\ i = Len(net)
            /\ i = (IF net[1].err = NilErr THEN 2 ELSE 3)
  /\ pc = "StartTLS" => (Len(net) = 1 /\ net[1].err # NilErr)
  /\ pc = "DetectSearchBase" =>
       /\ ldapConnectionValidCondition # NilCondition
       /\ net[Len(net)].op \in {TLS, StartTLS}

\* C22: within a pass the network operations are sequential and bounded:
\* the TLS attempt comes first, the StartTLS attempt is made only if the TLS
\* attempt failed, the resolver runs only after TestConnection returned,
\* there are at most two connection attempts and one resolver call, each
\* step of the pass makes at most one of them, and none is repeated.
C22_ProbesSequentialAndBounded ==
  [][ /\ NetOrder'
      /\ (net' # net /\ pc' # "ValidateSecret") =>
           (Len(net') = Len(net) + 1 /\ SubSeq(net', 1, Len(net)) = net) ]_vars

\* the resolver has run after a successful TLS attempt: no StartTLS attempt
C22_Witness ==
  /\ pc \in {"Set", "Append"}
  /\ Len(net) = 2
  /\ net[1] = NetOp(TLS, NilErr)
  /\ net[2].op = DetectOp

\* C23: on the probing path DetectAndSetSearchBase is invoked exactly once,
\* after TestConnection and whether or not the connection probe succeeded,
\* and its condition is returned and appended to the list also when the
\* connection condition is false.
C23_ResolverRunsOnce ==
  (AfterProbe /\ path = "probe") =>
    /\ Cardinality({i \in 1..Len(net) : net[i].op = DetectOp}) = 1
    /\ net[Len(net)].op = DetectOp
    /\ pc \in {"Returned", "done"} =>
         /\ conditions[3].condition = ldapConnectionValidCondition
         /\ searchBaseFoundCondition # NilCondition =>
              /\ Len(conditions) = 4
              /\ conditions[4] = gradatedCondition(searchBaseFoundCondition, TRUE)

\* a returned list whose connection condition is false and whose search-base
\* condition tells of a default naming context found all the same
C23_Witness ==
  /\ pc = "Returned" /\ path = "probe"
  /\ Len(conditions) = 4
  /\ conditions[3].condition.Status = ConditionFalse
  /\ conditions[4].condition.Reason = ReasonSuccess
  /\ conditions[4].condition.Type = TypeSearchBaseFound

\* the CA bundle the TLS spec of the pass stands for
BundleOfSpec ==
  IF tlsSpec.isNil \/ tlsSpec.CertificateAuthorityData = "" THEN NilBundle
  ELSE DecodeString(tlsSpec.CertificateAuthorityData).bytes

\* C24: in every pass where a connection probe runs, the secret validator
\* and the TLS validator have both completed (and passed) before the first
\* network operation starts, and every network operation of the pass is made
\* with a config holding the bind username and password of the secret and
\* the CA bundle of the TLS spec that the validators read in the same pass.
C24_ValidatorsBeforeProbe ==
  [][ Len(net') > Len(net) =>
        /\ Len(conditions) = 2
        /\ ValidatorsPassed
        /\ cacheOps = <<"Get">>
        /\ secret.err = NilErr
        /\ secret.username # "" /\ secret.password # ""
        /\ config'.BindUsername = secret.username
        /\ config'.BindPassword = secret.password
        /\ config'.CABundle = BundleOfSpec
        /\ ldapConnectionValidCondition' # NilCondition =>
             ldapConnectionValidCondition'.Message.user = secret.username ]_vars

\* the TLS attempt has been made with the certificate of the TLS spec
C24_Witness ==
  /\ pc = "StartTLS"
  /\ Len(net) = 1
  /\ tlsSpec = TLSSpec(testCABundleBase64Encoded)
  /\ config.CABundle = testCABundle
  /\ config.BindUsername = testBindUsername
  /\ config.BindPassword = testBindPassword

(***************************************************************************)
(* C25                                                                     *)
(***************************************************************************)
\* the pass found the complete entry an earlier pass wrote for the same name,
\* generation and secret version, and has returned its list
RepeatedPass ==
  /\ pc \in {"Returned", "done"}
  /\ ValidatorsPassed
  /\ StartEntryMatches
  /\ StartEntryComplete

CachedAddresses ==
  UNION { {cache[n].ConnectionValidCondition, cache[n].SearchBaseFoundCondition} :
            n \in DOMAIN cache } \ {0}

\* C26: the conditions the cache points to and the conditions handed to the
\* caller are different objects, after a probe that stored and after a hit;
\* whatever the caller writes into the conditions it was handed, every
\* entry's conditions stay as they were stored, and a hit hands out
\* conditions equal to the stored ones.
C26_CopiesAreIndependent ==
  pc = "copy" =>
    /\ {handed.conn, handed.sb} \cap CachedAddresses = {}
    /\ \A n \in DOMAIN cache :
         /\ Deref(heap, cache[n].ConnectionValidCondition) = cachedValue[n].conn
         /\ Deref(heap, cache[n].SearchBaseFoundCondition) = cachedValue[n].sb
    /\ (handed.op = "hit" /\ ~handed.refreshed) =>
         /\ Deref(heap, handed.conn) = cachedValue[handed.name].conn
         /\ Deref(heap, handed.sb) = cachedValue[handed.name].sb

\* a hit after the caller has refreshed conditions returned by the probing
\* pass and by an earlier hit
C26_Witness ==
  /\ pc = "copy"
  /\ handed.op = "hit"
  /\ ~handed.refreshed
  /\ handed.sb # 0
  /\ Cardinality({a \in 1..Len(heap) : heap[a].ObservedGeneration # 0}) >= 2
  /\ heap[1].ObservedGeneration # 0
  /\ Deref(heap, handed.conn) = cachedValue[handed.name].conn

(***************************************************************************)
(* C27                                                                     *)
(***************************************************************************)
\* the status of the upstream shows a true connection condition observed at
\* the upstream's current generation
StatusShowsValidConnection ==
  \E i \in 1..Len(status) :
    /\ status[i].condition.Type = typeLDAPConnectionValid
    /\ status[i].condition.Status = ConditionTrue
    /\ status[i].ObservedGeneration = upstream.generation

\* the errors the dial attempts of the pass came back with
DialResults == {NilErr} \cup { net[i].err : i \in 1..Len(net) }

\* C27: whatever conditions the upstream's status holds, a pass reuses the
\* cache exactly when the cache held a complete entry for its name,
\* generation and secret version; then it returns that entry's conditions
\* without a network operation, and otherwise it probes the server and
\* returns the condition of that probe.
C27_StatusIsNotConsulted ==
  AfterLookup =>
    /\ path = "hit" <=> (StartEntryMatches /\ StartEntryComplete)
    /\ path = "hit" =>
         /\ net = <<>>
         /\ ldapConnectionValidCondition =
              startCache[upstream.name].ConnectionValidCondition
         /\ searchBaseFoundCondition =
              startCache[upstream.name].SearchBaseFoundCondition
    /\ path # "hit" =>
         /\ path = "probe"
         /\ pc # "TLS" => Len(net) >= 1 /\ net[1].op = TLS
         /\ AfterProbe =>
              ldapConnectionValidCondition \in
                { ConnectionCondition(config, upstream.secretName,
                                      currentSecretVersion, e) : e \in DialResults }

\* the cache holds an entry for the name under another secret version, the
\* status shows a true connection condition for the current generation, and
\* the pass has probed the server
C27_Witness ==
  /\ pc = "done"
  /\ ValidatorsPassed
  /\ StatusShowsValidConnection
  /\ upstream.name \in DOMAIN startCache
  /\ ~StartEntryMatches
  /\ path = "probe"
  /\ Len(net) >= 2

(***************************************************************************)
(* C28                                                                     *)
(***************************************************************************)
\* C28: for the variant whose resolver returns nil, a pass whose validators
\* passed returns exactly three conditions, none of them SearchBaseFound; a
\* probe that connected has written the cache, with a nil search-base
\* condition in the entry; and a pass that reuses such an entry returns
\* three conditions again.
C28_NilSearchBaseCondition ==
  (variant = LDAPVariant /\ AfterProbe) =>
    /\ searchBaseFoundCondition = NilCondition
    /\ pc \in {"Returned", "done"} =>
         /\ Len(conditions) = 3
         /\ \A i \in 1..3 : conditions[i].condition.Type # TypeSearchBaseFound
         /\ conditions[3].condition = ldapConnectionValidCondition
    /\ (path = "probe" /\ ldapConnectionValidCondition.Status = ConditionTrue) =>
         /\ cacheOps = <<"Get", "Set">>
         /\ cache[upstream.name] = PassEntry
         /\ cache[upstream.name].SearchBaseFoundCondition = NilCondition
    /\ path = "hit" => startCache[upstream.name].SearchBaseFoundCondition = NilCondition

\* a pass of the variant without a resolver has reused an entry whose
\* search-base condition is nil and has returned three conditions
C28_Witness ==
  /\ variant = LDAPVariant
  /\ pc = "done"
  /\ path = "hit"
  /\ startCache[upstream.name].SearchBaseFoundCondition = NilCondition
  /\ Len(conditions) = 3
  /\ conditions[3].condition.Type = typeLDAPConnectionValid

(***************************************************************************)
(* C29                                                                     *)
(***************************************************************************)
\* C29 as stated: also when passes for the same upstream name run in
\* parallel, every stored entry is the value one single pass wrote:
\* generation, secret version, protocol, search bases and conditions all
\* come from the same pass.
C29_EntryFromOnePass ==
  pc = "sameName" =>
    \A n \in DOMAIN cache : cache[n] \in SettingsOf(n)

(***************************************************************************)
(* C30                                                                     *)
(***************************************************************************)
\* C30 as stated: a pass reuses cached settings only when they were
\* validated for its own upstream, the one with the same name, namespace
\* and UID; upstreams that differ in namespace or UID do not share an entry.
C30_HitOnlyForSameUpstream ==
  (AfterLookup /\ path = "hit") =>
    /\ upstream.name \in DOMAIN owner
    /\ owner[upstream.name] = identity

(***************************************************************************)
(* C31                                                                     *)
(***************************************************************************)
\* C31 as stated: every entry that a validation pass writes has a non-empty
\* user search base and a non-empty group search base.
C31_WrittenEntriesHaveBothBases ==
  \A n \in DOMAIN cache :
    /\ cache[n].UserSearchBase # ""
    /\ cache[n].GroupSearchBase # ""

(***************************************************************************)
(* C32                                                                     *)
(***************************************************************************)
\* C32 as stated: when the last pass that wrote the cache for the upstream's
\* name had the generation and secret version of the running pass, the
\* running pass reuses the entry and makes no connection attempt and no
\* search-base query, whatever search bases the upstream's spec leaves empty.
C32_NoProbeAfterWrite ==
  (AfterLookup /\ StartEntryMatches) =>
    /\ path = "hit"
    /\ net = <<>>

(***************************************************************************)
(* C33                                                                     *)
(***************************************************************************)
\* C33: starting from the empty cache, every entry holds a connection
\* condition that is not nil and is true, and a search-base condition that
\* is nil or true; so a pass that reuses an entry returns a true connection
\* condition, and EvaluateConditions gives it a provider and asks for no
\* retry.
C33_CachedConditionsAreTrue ==
  /\ \A n \in DOMAIN cache :
       /\ cache[n].ConnectionValidCondition # NilCondition
       /\ cache[n].ConnectionValidCondition.Status = ConditionTrue
       /\ \/ cache[n].SearchBaseFoundCondition = NilCondition
          \/ cache[n].SearchBaseFoundCondition.Status = ConditionTrue
  /\ (AfterProbe /\ path = "hit") =>
       /\ ldapConnectionValidCondition # NilCondition
       /\ ResultsShowNoFailure
  /\ (pc = "done" /\ path = "hit") =>
       /\ \A i \in 1..Len(conditions) : conditions[i].condition.Status = ConditionTrue
       /\ ~result.provider.isNil
       /\ result.provider.config = config
       /\ ~result.requeue

\* a pass has reused an entry holding both conditions and was given a
\* provider without a retry
C33_Witness ==
  /\ pc = "done"
  /\ path = "hit"
  /\ startCache[upstream.name].SearchBaseFoundCondition # NilCondition
  /\ Len(conditions) = 4
  /\ ~result.provider.isNil
  /\ ~result.requeue

(***************************************************************************)
(* C34                                                                     *)
(***************************************************************************)
\* C34: whenever EvaluateConditions returns a provider for the list of the
\* pass, the provider's config has TLS or StartTLS as its protocol: TLS
\* after a successful TLS attempt and after both attempts failed, StartTLS
\* after a successful fallback, and the protocol of the entry on a hit.
C34_PublishedProtocolIsSet ==
  (pc = "done" /\ ~result.provider.isNil) =>
    /\ result.provider.config.ConnectionProtocol \in {TLS, StartTLS}
    /\ path \in {"hit", "probe"}
    /\ path = "hit" =>
         result.provider.config.ConnectionProtocol =
           startCache[upstream.name].LDAPConnectionProtocol
    /\ path = "probe" =>
         /\ net[1].op = TLS
         /\ net[1].err = NilErr =>
              result.provider.config.ConnectionProtocol = TLS
         /\ net[1].err # NilErr =>
              /\ net[2].op = StartTLS
              /\ result.provider.config.ConnectionProtocol =
                   IF net[2].err = NilErr THEN StartTLS ELSE TLS

\* a provider was returned after the TLS attempt and the StartTLS attempt
\* both failed, and its config names TLS
C34_Witness ==
  /\ pc = "done"
  /\ ~result.provider.isNil
  /\ path = "probe"
  /\ net[1].err # NilErr
  /\ net[2].op = StartTLS
  /\ net[2].err # NilErr
  /\ result.provider.config.ConnectionProtocol = TLS
  /\ result.requeue

(***************************************************************************)
(* C35                                                                     *)
(***************************************************************************)
\* a pass under the settled surroundings has just been started
LivePassStarted == env.stable /\ pc = "ValidateSecret"

\* a pass under the settled surroundings has returned a provider without
\* asking for a retry, and the cache holds an entry for the upstream's
\* generation and the secret's version
LiveGoal ==
  /\ env.stable
  /\ pc = "done"
  /\ upstream = env.upstream
  /\ currentSecretVersion = env.secret.ResourceVersion
  /\ ~result.provider.isNil
  /\ ~result.requeue
  /\ Get(cache, upstream.name, env.secret.ResourceVersion, upstream.generation).found

\* C35: when passes keep being run and from some point on the upstream's
\* generation, its secret and its TLS block stay fixed and valid, the server
\* accepts a connection over TLS or StartTLS and the search-base resolution
\* succeeds or does not apply, then a pass is started under these
\* surroundings, and every such pass leads to one that returns a provider
\* without a retry, with the cache holding an entry for the current
\* generation and secret version.
C35_EventuallyPublished ==
  /\ env.stable ~> LivePassStarted
  /\ LivePassStarted ~> LiveGoal

\* the goal is reached by a pass that found an entry of an earlier secret
\* version, fell back to StartTLS and wrote the cache
C35_Witness ==
  /\ LiveGoal
  /\ env.accepts = StartTLS
  /\ path = "probe"
  /\ cacheOps = <<"Get", "Set">>
  /\ config.ConnectionProtocol = StartTLS
  /\ upstream.name \in DOMAIN startCache
  /\ startCache[upstream.name].BindSecretResourceVersion # currentSecretVersion

====
